---------------------------- MODULE Spec2Model ----------------------------
(***************************************************************************)
(* A model of the remedy-search service: api/index.py (the                 *)
(* BaseHTTPRequestHandler variant with pre-loaded EPUB books) and          *)
(* api/simple.py (the FastAPI variant with EPUB upload).                   *)
(*                                                                         *)
(* Text is modelled by TLA+ strings, character by character: Python's      *)
(* str methods and the regular expressions of the code are operators on    *)
(* the characters.  Word and character counts are scaled down: where the   *)
(* code says 900 / 150 / 50 words or 200 / 100 / 50 characters the model   *)
(* uses the small numbers named below, so that short texts reach the same  *)
(* branches.                                                               *)
(***************************************************************************)
EXTENDS Integers, Sequences, FiniteSets, TLC

VARIABLES
    cw_text,      \* chunk_words: the text argument
    cw_max,       \* chunk_words: the max_words argument
    cw_overlap,   \* chunk_words: the overlap argument
    cw_out,       \* chunk_words: the returned list of chunks
    cw_i,         \* chunk_words: the start index i of the while loop
    cw_pc         \* "input", or the call of chunk_words that ended

cw_vars == <<cw_text, cw_max, cw_overlap, cw_out, cw_i, cw_pc>>

VARIABLES
    sd_in,        \* smart_dedupe_ingredients: the ingredients argument
    sd_out,       \* smart_dedupe_ingredients: the returned list
    sd_pc         \* "input" or "done"

sd_vars == <<sd_in, sd_out, sd_pc>>

VARIABLES
    ex_snippet,   \* extract_ingredients_and_steps: the snippet argument
    ex_key,       \* whether OPENAI_API_KEY is set
    ex_ing_resp,  \* what the service answered the ingredient call
    ex_fmt_resp,  \* what the service answered the formatting call
    ex_out,       \* the returned dict
    ex_pc         \* "input", "no_key" or "called"

ex_vars == <<ex_snippet, ex_key, ex_ing_resp, ex_fmt_resp, ex_out, ex_pc>>

\* The deployed handler: which variant runs, whether its EPUB libraries
\* import, the global books_data, the local chunks of the last load that
\* ran, the request being answered and the response sent, and the
\* temporary files left on disk.
VARIABLES variant, libs, books_data, loaded_chunks, pc, request, response, tmp_files

srv_vars == <<variant, libs, books_data, loaded_chunks, pc, request, response, tmp_files>>

VARIABLES
    ts_query,     \* simple_text_search: the query argument
    ts_max,       \* simple_text_search: the max_results argument
    ts_out,       \* simple_text_search: the returned list of chunks
    ts_pc         \* "input", or the call of simple_text_search that ended

ts_vars == <<ts_query, ts_max, ts_out, ts_pc>>

\* The event loop of api/simple.py serving several clients: the task of each
\* client (its request, the statement its handler is at, its response), the
\* client whose handler holds the loop (0: none), the upload each chunk of
\* books_data came from, and the uploads admitted so far.
VARIABLES el_task, el_running, el_owner, el_uploads

el_vars == <<el_task, el_running, el_owner, el_uploads>>

vars == <<cw_vars, sd_vars, ex_vars, srv_vars, ts_vars, el_vars>>

\* Each specification runs one part of the program; the others stay idle.
ChunkIdle ==
    /\ cw_text = "" /\ cw_max = 1 /\ cw_overlap = 0
    /\ cw_out = <<>> /\ cw_i = 0 /\ cw_pc = "idle"
DedupeIdle == sd_in = <<>> /\ sd_out = <<>> /\ sd_pc = "idle"

\* No call made to the language-model service.
NoResponse == [kind |-> "none", text |-> "", items |-> <<>>]
NoExtract == [ingredients |-> <<>>, instructions |-> <<>>]
ExtractIdle ==
    /\ ex_snippet = "" /\ ex_key = FALSE
    /\ ex_ing_resp = NoResponse /\ ex_fmt_resp = NoResponse
    /\ ex_out = NoExtract /\ ex_pc = "idle"

\* A response body with no key, and no response.
NoBody == [keys |-> {}, ok |-> FALSE, error |-> "", detail |-> "", remedies |-> <<>>,
           chunks |-> 0, chunks_loaded |-> 0]

NoResponseSent == [status |-> 0, type |-> "none"] @@ NoBody

\* No search body, no uploaded file and no request.
NoSearchBody == [kind |-> "none", q_is |-> "absent", q |-> "", k_is |-> "absent", k |-> 0]

NoFile == [filename |-> "", copy_fails |-> FALSE, readable |-> FALSE, items |-> <<>>]

NoRequest == [method |-> "", path |-> "", body |-> NoSearchBody, file |-> NoFile,
              llm |-> "no_key"]

SearchIdle == ts_query = "" /\ ts_max = 0 /\ ts_out = <<>> /\ ts_pc = "idle"

NoTask == [handler |-> "none", at |-> "idle", file |-> NoFile, body |-> NoSearchBody,
           i |-> 0, upload |-> 0, response |-> NoResponseSent]

LoopIdle ==
    /\ el_task = <<>> /\ el_running = 0 /\ el_owner = <<>> /\ el_uploads = 0

ServerIdle ==
    /\ variant = "none"
    /\ libs = "ok"
    /\ books_data = <<>>
    /\ loaded_chunks = <<>>
    /\ pc = "off"
    /\ request = NoRequest
    /\ response = NoResponseSent
    /\ tmp_files = 0

(***************************************************************************)
(* Bounds of the model.                                                    *)
(***************************************************************************)
MaxTextWords == 5      \* words in a text handed to chunk_words
MaxMaxWords == 4       \* largest max_words argument tried
SectionTitleReserve == 3   \* words index.py keeps free for a section title (50 in the code)
MaxIngredients == 3    \* ingredients in a list handed to smart_dedupe_ingredients
MaxSnippetLines == 3   \* lines in a snippet handed to extract_ingredients_and_steps
MaxAiItems == 2        \* elements in a JSON list the language-model service answers

(***************************************************************************)
(* Characters.                                                             *)
(***************************************************************************)
Digits == {"0", "1", "2", "3", "4", "5", "6", "7", "8", "9"}
LowerLetters == {"a", "b", "c", "d", "e", "f", "g", "h", "i", "j", "k", "l", "m",
                 "n", "o", "p", "q", "r", "s", "t", "u", "v", "w", "x", "y", "z"}
UpperLetters == {"A", "B", "C", "D", "E", "F", "G", "H", "I", "J", "K", "L", "M",
                 "N", "O", "P", "Q", "R", "S", "T", "U", "V", "W", "X", "Y", "Z"}
Whitespace == {" ", "\n", "\t"}

UpperString == "ABCDEFGHIJKLMNOPQRSTUVWXYZ"
LowerString == "abcdefghijklmnopqrstuvwxyz"

IsDigit(c) == c \in Digits
IsSpace(c) == c \in Whitespace
IsLetter(c) == c \in LowerLetters \/ c \in UpperLetters
IsDot(c) == c = "."

Min(a, b) == IF a < b THEN a ELSE b
Max(a, b) == IF a > b THEN a ELSE b

\* s[i] of Python, 1-based.
Ch(s, i) == SubSeq(s, i, i)

\* s[i:j] of Python for 0 <= i, j (0-based, end exclusive, clipped); works
\* on strings and on lists.
Slice(s, i, j) == SubSeq(s, i + 1, Min(j, Len(s)))

LowerCh(c) ==
    IF c \in UpperLetters
    THEN Ch(LowerString, CHOOSE i \in 1..26 : Ch(UpperString, i) = c)
    ELSE c

UpperCh(c) ==
    IF c \in LowerLetters
    THEN Ch(UpperString, CHOOSE i \in 1..26 : Ch(LowerString, i) = c)
    ELSE c

(***************************************************************************)
(* Python's str methods.                                                   *)
(***************************************************************************)
\* <<1, ..., n>>
Indices(n) == [i \in 1..n |-> i]

\* s[a..b].lower(), by halves so that long texts nest only a few levels.
RECURSIVE LowerRange(_, _, _)
LowerRange(s, a, b) ==
    IF a > b THEN ""
    ELSE IF a = b THEN LowerCh(Ch(s, a))
    ELSE LowerRange(s, a, (a + b) \div 2) \o LowerRange(s, (a + b) \div 2 + 1, b)

\* s.lower()
Lower(s) == LowerRange(s, 1, Len(s))

\* sub in s
Contains(s, sub) ==
    \E i \in 1..(Len(s) - Len(sub) + 1) : SubSeq(s, i, i + Len(sub) - 1) = sub

\* any(k in s for k in subs)
ContainsAny(s, subs) == \E k \in subs : Contains(s, k)

\* s.startswith(sub) at 1-based position i
MatchesAt(s, i, sub) == SubSeq(s, i, i + Len(sub) - 1) = sub

\* s.endswith(sub)
EndsWith(s, sub) ==
    Len(sub) <= Len(s) /\ SubSeq(s, Len(s) - Len(sub) + 1, Len(s)) = sub

\* sep.join(parts[a..b]), by halves.
RECURSIVE JoinRange(_, _, _, _)
JoinRange(sep, parts, a, b) ==
    IF a > b THEN ""
    ELSE IF a = b THEN parts[a]
    ELSE JoinRange(sep, parts, a, (a + b) \div 2) \o sep
         \o JoinRange(sep, parts, (a + b) \div 2 + 1, b)

\* sep.join(parts)
JoinWith(sep, parts) == JoinRange(sep, parts, 1, Len(parts))

\* " ".join(words)
Join(ws) == JoinWith(" ", ws)

\* s.split(): the maximal runs of non-whitespace characters.
Split(t) ==
    LET first == SelectSeq(Indices(Len(t)),
                     LAMBDA i : ~IsSpace(Ch(t, i)) /\ (i = 1 \/ IsSpace(Ch(t, i - 1))))
        last == SelectSeq(Indices(Len(t)),
                     LAMBDA i : ~IsSpace(Ch(t, i)) /\ (i = Len(t) \/ IsSpace(Ch(t, i + 1))))
    IN  [k \in 1..Len(first) |-> SubSeq(t, first[k], last[k])]

\* s.split(sep) for a one-character sep: empty pieces are kept.
SplitOn(t, sep) ==
    LET at == SelectSeq(Indices(Len(t)), LAMBDA i : Ch(t, i) = sep)
    IN  [k \in 1..(Len(at) + 1) |->
            SubSeq(t, IF k = 1 THEN 1 ELSE at[k - 1] + 1,
                      IF k = Len(at) + 1 THEN Len(t) ELSE at[k] - 1)]

\* s.strip()
RECURSIVE LStrip(_)
LStrip(t) ==
    IF t # "" /\ IsSpace(Ch(t, 1)) THEN LStrip(SubSeq(t, 2, Len(t))) ELSE t
RECURSIVE RStrip(_)
RStrip(t) ==
    IF t # "" /\ IsSpace(Ch(t, Len(t))) THEN RStrip(SubSeq(t, 1, Len(t) - 1)) ELSE t
Strip(t) == RStrip(LStrip(t))

\* The end of a greedy run of a regular expression: the first index q >= p
\* of t whose character is not of the run's class, or Len(t) + 1.
RECURSIVE DigitRunEnd(_, _)
DigitRunEnd(t, p) ==                                      \* \d*
    IF p > Len(t) \/ ~IsDigit(Ch(t, p)) THEN p ELSE DigitRunEnd(t, p + 1)
RECURSIVE SpaceRunEnd(_, _)
SpaceRunEnd(t, p) ==                                      \* \s*
    IF p > Len(t) \/ ~IsSpace(Ch(t, p)) THEN p ELSE SpaceRunEnd(t, p + 1)
RECURSIVE NoDotRunEnd(_, _)
NoDotRunEnd(t, p) ==                                      \* [^.]*
    IF p > Len(t) \/ IsDot(Ch(t, p)) THEN p ELSE NoDotRunEnd(t, p + 1)

(***************************************************************************)
(* chunk_words of api/index.py.  The numbered-section pattern is           *)
(*   \d+\.\s+[A-Z][^.]*(?:cancer|disease|condition|remedy)[^.]*            *)
(* with re.IGNORECASE.                                                     *)
(***************************************************************************)
SectionKeywords == {"cancer", "disease", "condition", "remedy"}

\* The index one past a match of the section pattern starting at p; 0 when
\* the pattern does not match at p.
SectionMatchEnd(t, p) ==
    LET q == DigitRunEnd(t, p)                       \* \d+
    IN  IF q = p \/ q > Len(t) \/ Ch(t, q) # "." THEN 0    \* \.
        ELSE LET r == SpaceRunEnd(t, q + 1)          \* \s+
             IN  IF r = q + 1 \/ r > Len(t) \/ ~IsLetter(Ch(t, r)) THEN 0   \* [A-Z]
                 ELSE LET e == NoDotRunEnd(t, r + 1)    \* [^.]* keyword [^.]*
                      IN  IF ContainsAny(Lower(SubSeq(t, r + 1, e - 1)), SectionKeywords)
                          THEN e ELSE 0

\* re.search(section pattern, text) finds a match.
SectionSearch(t) == \E p \in 1..Len(t) : SectionMatchEnd(t, p) # 0

\* re.split(r'(pattern)', text): the text before the first match, then for
\* each match the matched title and the text up to the next match.
RECURSIVE SectionSplitFrom(_, _)
SectionSplitFrom(t, from) ==
    LET starts == {p \in from..Len(t) : SectionMatchEnd(t, p) # 0}
    IN  IF starts = {} THEN <<SubSeq(t, from, Len(t))>>
        ELSE LET p == CHOOSE x \in starts : \A y \in starts : x <= y
                 e == SectionMatchEnd(t, p)
             IN  <<SubSeq(t, from, p - 1), SubSeq(t, p, e - 1)>>
                     \o SectionSplitFrom(t, e)

SectionSplit(t) == SectionSplitFrom(t, 1)

\* for j in range(0, len(content_words), step): title + content_words[j:j+step]
\* (range() with a negative step from 0 is empty; a step of 0 raises, see
\* OneSectionRaises)
RECURSIVE LongSectionChunks(_, _, _, _)
LongSectionChunks(title, content_words, j, step) ==
    IF step <= 0 \/ j >= Len(content_words) THEN <<>>
    ELSE <<title \o " " \o Join(Slice(content_words, j, j + step))>>
             \o LongSectionChunks(title, content_words, j + step, step)

\* The chunks of the section whose title is sections[i] (1-based, i even).
OneSectionChunks(sections, i, max_words) ==
    LET section_title == Strip(sections[i])
        section_content == Strip(sections[i + 1])
        full_section == section_title \o " " \o section_content
    IN  IF Len(Split(full_section)) > max_words
        THEN LongSectionChunks(section_title, Split(section_content), 0,
                               max_words - SectionTitleReserve)
        ELSE <<full_section>>

\* range(0, n, 0) raises ValueError: an over-long section when
\* max_words - 50 = 0.
OneSectionRaises(sections, i, max_words) ==
    LET full_section == Strip(sections[i]) \o " " \o Strip(sections[i + 1])
    IN  Len(Split(full_section)) > max_words /\ max_words - SectionTitleReserve = 0

RECURSIVE SectionChunksFrom(_, _, _)
SectionChunksFrom(sections, i, max_words) ==
    IF i + 1 > Len(sections) THEN <<>>
    ELSE OneSectionChunks(sections, i, max_words)
             \o SectionChunksFrom(sections, i + 2, max_words)

\* WordWindows with the words of a chunk joined by "" instead of " ".
RECURSIVE WordWindowsNoSeparator(_, _, _, _)
WordWindowsNoSeparator(words, i, max_words, overlap) ==
    IF i >= Len(words) THEN <<>>
    ELSE LET end_idx == Min(i + max_words, Len(words))
         IN  <<JoinWith("", Slice(words, i, end_idx))>>
                 \o (IF end_idx >= Len(words) THEN <<>>
                     ELSE WordWindowsNoSeparator(words, i + max_words - overlap,
                                                 max_words, overlap))

\* WordWindows with i moved by max_words, so that windows do not overlap.
RECURSIVE WordWindowsNoOverlap(_, _, _, _)
WordWindowsNoOverlap(words, i, max_words, overlap) ==
    IF i >= Len(words) THEN <<>>
    ELSE LET end_idx == Min(i + max_words, Len(words))
         IN  <<Join(Slice(words, i, end_idx))>>
                 \o (IF end_idx >= Len(words) THEN <<>>
                     ELSE WordWindowsNoOverlap(words, i + max_words, max_words, overlap))

\* The while loop of chunk_words (index.py 162-167, simple.py 53-58); i is
\* 0-based.  It ends when overlap < max_words.
RECURSIVE WordWindows(_, _, _, _)
WordWindows(words, i, max_words, overlap) ==
    IF i >= Len(words) THEN <<>>
    ELSE LET end_idx == Min(i + max_words, Len(words))
         IN  <<Join(Slice(words, i, end_idx))>>
                 \o (IF end_idx >= Len(words) THEN <<>>
                     ELSE WordWindows(words, i + max_words - overlap,
                                      max_words, overlap))

\* chunk_words raises instead of returning.
chunk_words_raises(text, max_words) ==
    /\ SectionSearch(text)
    /\ LET sections == SectionSplit(text)
       IN  \E i \in 2..Len(sections) :
               i % 2 = 0 /\ OneSectionRaises(sections, i, max_words)

\* The section path is taken and returns (a non-empty list of section chunks).
TakesSectionPath(text, max_words) ==
    /\ SectionSearch(text)
    /\ ~chunk_words_raises(text, max_words)
    /\ SectionChunksFrom(SectionSplit(text), 2, max_words) # <<>>

\* api/index.py chunk_words(text, max_words, overlap), when it returns.
chunk_words(text, max_words, overlap) ==
    IF TakesSectionPath(text, max_words)
    THEN SectionChunksFrom(SectionSplit(text), 2, max_words)
    ELSE WordWindows(Split(text), 0, max_words, overlap)

\* api/simple.py chunk_words(text, max_words, overlap).
simple_chunk_words(text, max_words, overlap) ==
    WordWindows(Split(text), 0, max_words, overlap)

(***************************************************************************)
(* smart_dedupe_ingredients of api/index.py.  An ingredient is a record    *)
(* [name, amount, unit, raw]; None is Python's None.                       *)
(***************************************************************************)
None == "<None>"

\* bool(v) for v a str or None
Truthy(v) == v # None /\ v # ""

\* s.title(): every letter that follows a non-letter is upper-cased, every
\* other letter lower-cased.
RECURSIVE TitleFrom(_, _)
TitleFrom(s, i) ==
    IF i > Len(s) THEN ""
    ELSE (IF i > 1 /\ IsLetter(Ch(s, i - 1)) THEN LowerCh(Ch(s, i))
          ELSE UpperCh(Ch(s, i))) \o TitleFrom(s, i + 1)

Title(s) == TitleFrom(s, 1)

\* common_herbs, in the order of the dict literal: <<main name, variants>>.
common_herbs == <<
    <<"ginger", <<"ginger", "ginger root", "fresh ginger">> >>,
    <<"lemon", <<"lemon", "lemon juice", "fresh lemon", "lemon juiced">> >>,
    <<"honey", <<"honey", "raw honey", "organic honey">> >>,
    <<"water", <<"water", "hot water", "warm water", "boiling water">> >>,
    <<"tea", <<"tea", "herbal tea", "green tea">> >>,
    <<"oil", <<"oil", "coconut oil", "olive oil", "essential oil">> >>,
    <<"turmeric", <<"turmeric", "turmeric powder", "fresh turmeric">> >>,
    <<"garlic", <<"garlic", "fresh garlic", "garlic cloves">> >>,
    <<"rhodiola", <<"rhodiola", "rhodiola root">> >>,
    <<"ginseng", <<"ginseng", "american ginseng", "korean ginseng">> >>,
    <<"ashwagandha", <<"ashwagandha", "ashwagandha root">> >>,
    <<"devil's claw", <<"devil's claw", "devils claw">> >>,
    <<"nettle", <<"nettle", "stinging nettle", "nettle leaf">> >>,
    <<"coconut water", <<"coconut water", "coconut milk">> >>,
    <<"hibiscus", <<"hibiscus", "hibiscus flower", "hibiscus tea">> >> >>

\* The names smart_dedupe_ingredients skips.
SkipNames == {"teaspoon", "tablespoon", "cup", "boiling", "fresh", "organic", "raw"}

\* A dict as the list of its <<key, value>> items in insertion order.
DictHas(d, k) == \E i \in 1..Len(d) : d[i][1] = k
DictGet(d, k) == d[CHOOSE i \in 1..Len(d) : d[i][1] = k][2]
DictPut(d, k, v) ==
    IF DictHas(d, k)
    THEN [i \in 1..Len(d) |-> IF d[i][1] = k THEN <<k, v>> ELSE d[i]]
    ELSE Append(d, <<k, v>>)
DictValues(d) == [i \in 1..Len(d) |-> d[i][2]]

\* The keys herb_lookup gets from each herb: variant.lower() of its variants.
herb_lookup_keys ==
    [g \in 1..Len(common_herbs) |->
        {Lower(common_herbs[g][2][k]) : k \in 1..Len(common_herbs[g][2])}]

\* herb_lookup.get(name_lower, name_lower), where herb_lookup is filled by
\* herb_lookup[variant.lower()] = main_name over common_herbs in order, so
\* that the last herb listing a variant wins.
HerbLookupGet(name_lower) ==
    LET hits == {g \in 1..Len(common_herbs) : name_lower \in herb_lookup_keys[g]}
    IN  IF hits = {} THEN name_lower
        ELSE common_herbs[CHOOSE g \in hits : \A h \in hits : h <= g][1]

\* The loop of smart_dedupe_ingredients keyed by the ingredient's own
\* lower-cased name instead of the main name.
RECURSIVE ConsolidateByOwnName(_, _)
ConsolidateByOwnName(ingredients, consolidated) ==
    IF ingredients = <<>> THEN consolidated
    ELSE LET ing == Head(ingredients)
             name_lower == Strip(Lower(ing.name))
             main_name == name_lower
         IN  IF name_lower \in SkipNames
             THEN ConsolidateByOwnName(Tail(ingredients), consolidated)
             ELSE IF DictHas(consolidated, main_name)
             THEN LET existing == DictGet(consolidated, main_name)
                  IN  IF /\ Truthy(ing.amount) /\ Truthy(ing.unit)
                         /\ ~(Truthy(existing.amount) /\ Truthy(existing.unit))
                      THEN ConsolidateByOwnName(Tail(ingredients),
                                       DictPut(consolidated, main_name, ing))
                      ELSE ConsolidateByOwnName(Tail(ingredients), consolidated)
             ELSE ConsolidateByOwnName(Tail(ingredients),
                      DictPut(consolidated, main_name,
                              [ing EXCEPT !.name = Title(main_name)]))

\* The loop of smart_dedupe_ingredients over the ingredients left, with the
\* dict consolidated built so far.
RECURSIVE Consolidate(_, _)
Consolidate(ingredients, consolidated) ==
    IF ingredients = <<>> THEN consolidated
    ELSE LET ing == Head(ingredients)
             name_lower == Strip(Lower(ing.name))
             main_name == HerbLookupGet(name_lower)
         IN  IF name_lower \in SkipNames
             THEN Consolidate(Tail(ingredients), consolidated)
             ELSE IF DictHas(consolidated, main_name)
             THEN LET existing == DictGet(consolidated, main_name)
                  IN  IF /\ Truthy(ing.amount) /\ Truthy(ing.unit)
                         /\ ~(Truthy(existing.amount) /\ Truthy(existing.unit))
                      THEN Consolidate(Tail(ingredients),
                                       DictPut(consolidated, main_name, ing))
                      ELSE Consolidate(Tail(ingredients), consolidated)
             ELSE Consolidate(Tail(ingredients),
                      DictPut(consolidated, main_name,
                              [ing EXCEPT !.name = Title(main_name)]))

smart_dedupe_ingredients(ingredients) ==
    IF ingredients = <<>> THEN <<>>
    ELSE DictValues(Consolidate(ingredients, <<>>))

(***************************************************************************)
(* SpecDedupe: smart_dedupe_ingredients applied to every bounded list.     *)
(***************************************************************************)
\* Names as the parsers produce them: synonyms of one herb, a unit word,
\* a name outside the table, in several spellings.
DedupeNames == {"ginger", "Fresh Ginger", " ginger root", "Cup", "mint", "Mint "}

DedupeIngredients ==
    {[name |-> n, amount |-> au[1], unit |-> au[2], raw |-> n] :
        n \in DedupeNames,
        au \in {<<None, None>>, <<"1", None>>, <<"1", "tsp">>}}

InitDedupe ==
    /\ ChunkIdle
    /\ ExtractIdle
    /\ ServerIdle
    /\ SearchIdle
    /\ LoopIdle
    /\ sd_in \in UNION {[1..n -> DedupeIngredients] : n \in 0..MaxIngredients}
    /\ sd_out = <<>>
    /\ sd_pc = "input"

SmartDedupe ==
    /\ sd_pc = "input"
    /\ sd_out' = smart_dedupe_ingredients(sd_in)
    /\ sd_pc' = "done"
    /\ UNCHANGED <<sd_in, cw_vars, ex_vars, srv_vars, ts_vars, el_vars>>

NextDedupe == SmartDedupe

SpecDedupe == InitDedupe /\ [][NextDedupe]_vars

(***************************************************************************)
(* The line patterns of api/index.py:                                      *)
(*   AMOUNT_RE  (?:\d+(?:\.\d+)?|\d+/\d+)                                  *)
(*   UNIT_RE    (?:tsp|tbsp|teaspoon|...|drops?|pinch|handful)             *)
(*   BULLET_RE  ^\s*(?:[-•*]|\d+\.)\s+                                     *)
(*   ING_LINE   ^\s*(?:AMOUNT\s*(?:UNIT)?\s+)?([A-Za-z][\w\s\-']+)         *)
(* A match is given by the index one past its end, 0 meaning no match.     *)
(***************************************************************************)
\* s[p:].startswith(sub), p 1-based
HasAt(s, p, sub) ==
    p + Len(sub) - 1 <= Len(s) /\ SubSeq(s, p, p + Len(sub) - 1) = sub

BulletMarks == {"-", "*"}

\* [\w\s\-']
IsNameChar(c) == IsLetter(c) \/ IsDigit(c) \/ IsSpace(c) \/ c \in {"_", "-", "'"}

RECURSIVE NameRunEnd(_, _)
NameRunEnd(t, p) ==                                       \* [\w\s\-']*
    IF p > Len(t) \/ ~IsNameChar(Ch(t, p)) THEN p ELSE NameRunEnd(t, p + 1)

\* BULLET_RE.search(ln): the pattern is anchored at the start of ln.
BulletEnd(ln) ==
    LET a == SpaceRunEnd(ln, 1)
        d == DigitRunEnd(ln, a)
        b == IF a <= Len(ln) /\ Ch(ln, a) \in BulletMarks THEN a + 1
             ELSE IF d > a /\ d <= Len(ln) /\ Ch(ln, d) = "." THEN d + 1
             ELSE 0
    IN  IF b = 0 \/ SpaceRunEnd(ln, b) = b THEN 0 ELSE SpaceRunEnd(ln, b)

\* re.sub(BULLET_RE, "", ln)
StripBullet(ln) ==
    IF BulletEnd(ln) = 0 THEN ln ELSE SubSeq(ln, BulletEnd(ln), Len(ln))

\* re.search(AMOUNT_RE, ln).group(0), or None: at the leftmost digit the
\* first alternative always matches.
AmountSearch(ln) ==
    LET starts == {p \in 1..Len(ln) : IsDigit(Ch(ln, p))}
    IN  IF starts = {} THEN None
        ELSE LET p == CHOOSE x \in starts : \A y \in starts : x <= y
                 d == DigitRunEnd(ln, p)
                 q == IF d < Len(ln) /\ Ch(ln, d) = "." /\ IsDigit(Ch(ln, d + 1))
                      THEN DigitRunEnd(ln, d + 1) ELSE d
             IN  SubSeq(ln, p, q - 1)

\* The alternatives of UNIT_RE in the order the pattern tries them.
UnitAlternatives == <<"tsp", "tbsp", "teaspoon", "tablespoon", "cup", "cups", "ml",
                      "l", "g", "kg", "ounce", "oz", "inches", "slice", "slices",
                      "piece", "pieces", "drops", "drop", "pinch", "handful">>

\* The alternatives of UNIT_RE that match ln at p, ignoring case.
UnitsAt(ln, p) ==
    {k \in 1..Len(UnitAlternatives) : HasAt(Lower(ln), p, UnitAlternatives[k])}

\* re.search(UNIT_RE, ln, re.IGNORECASE).group(0), or None
UnitSearch(ln) ==
    LET starts == {p \in 1..Len(ln) : UnitsAt(ln, p) # {}}
    IN  IF starts = {} THEN None
        ELSE LET p == CHOOSE x \in starts : \A y \in starts : x <= y
                 k == CHOOSE x \in UnitsAt(ln, p) : \A y \in UnitsAt(ln, p) : x <= y
             IN  SubSeq(ln, p, p + Len(UnitAlternatives[k]) - 1)

\* ([A-Za-z][\w\s\-']+) at s: the end of the group, 0 when it does not match.
NameGroupEnd(ln, s) ==
    IF s < Len(ln) /\ IsLetter(Ch(ln, s)) /\ IsNameChar(Ch(ln, s + 1))
    THEN NameRunEnd(ln, s + 1) ELSE 0

\* The ends an AMOUNT_RE match starting at p can have, in the order the
\* pattern tries them (shorter digit runs are followed by a digit, which
\* nothing after AMOUNT_RE in ING_LINE accepts).
AmountEnds(ln, p) ==
    LET d == DigitRunEnd(ln, p)
    IN  IF d = p THEN <<>>
        ELSE (IF d < Len(ln) /\ Ch(ln, d) = "." /\ IsDigit(Ch(ln, d + 1))
              THEN <<DigitRunEnd(ln, d + 1)>> ELSE <<>>)
             \o <<d>>
             \o (IF d < Len(ln) /\ Ch(ln, d) = "/" /\ IsDigit(Ch(ln, d + 1))
                 THEN <<DigitRunEnd(ln, d + 1)>> ELSE <<>>)

\* Where the name group starts after \s*(?:UNIT)?\s+ has matched from q, the
\* unit tried before its absence; 0 when the name group matches at neither.
NameStartAfterAmount(ln, q) ==
    LET r == SpaceRunEnd(ln, q)
        withUnit == {SpaceRunEnd(ln, r + Len(UnitAlternatives[k])) :
                        k \in {x \in UnitsAt(ln, r) :
                                 LET u == r + Len(UnitAlternatives[x])
                                 IN  /\ SpaceRunEnd(ln, u) > u
                                     /\ NameGroupEnd(ln, SpaceRunEnd(ln, u)) # 0}}
    IN  IF withUnit # {} THEN CHOOSE e \in withUnit : TRUE
        ELSE IF r > q /\ NameGroupEnd(ln, r) # 0 THEN r
        ELSE 0

\* ING_LINE.match(ln).group(1), or None when ING_LINE does not match.
IngLineName(ln) ==
    LET a == SpaceRunEnd(ln, 1)
        ends == AmountEnds(ln, a)
        good == {i \in 1..Len(ends) : NameStartAfterAmount(ln, ends[i]) # 0}
        s == IF good # {}
             THEN NameStartAfterAmount(ln, ends[CHOOSE i \in good : \A j \in good : i <= j])
             ELSE a
    IN  IF NameGroupEnd(ln, s) = 0 THEN None
        ELSE SubSeq(ln, s, NameGroupEnd(ln, s) - 1)

(***************************************************************************)
(* extract_ingredients_and_steps of api/index.py: the line parser.         *)
(***************************************************************************)
StepKeywords == {"method", "directions", "instructions", "preparation", "steps"}
BulletUnitHints == {"tsp", "tbsp", "cup", "ml", "g", "oz"}

\* [l.strip() for l in snippet.splitlines() if l.strip()]
StrippedLines(snippet) ==
    LET raw == SplitOn(snippet, "\n")
    IN  SelectSeq([i \in 1..Len(raw) |-> Strip(raw[i])], LAMBDA l : l # "")

\* The loop over the lines from index i on; mode is None, "ing" or "step";
\* the value is the pair of lists the loop leaves.
RECURSIVE ParseLines(_, _, _, _, _)
ParseLines(lines, i, mode, ingredients, steps) ==
    IF i > Len(lines) THEN [ingredients |-> ingredients, steps |-> steps]
    ELSE LET ln == lines[i]
             low == Lower(ln)
             ingLike == \/ mode = "ing"
                        \/ BulletEnd(ln) # 0 /\ ContainsAny(low, BulletUnitHints)
         IN  IF Contains(low, "ingredient")
             THEN ParseLines(lines, i + 1, "ing", ingredients, steps)
             ELSE IF ContainsAny(low, StepKeywords)
             THEN ParseLines(lines, i + 1, "step", ingredients, steps)
             ELSE IF ingLike /\ IngLineName(ln) # None
             THEN ParseLines(lines, i + 1, mode,
                      Append(ingredients,
                             [name |-> Strip(IngLineName(ln)),
                              amount |-> AmountSearch(ln),
                              unit |-> UnitSearch(ln),
                              raw |-> ln]),
                      steps)
             ELSE IF BulletEnd(ln) # 0 \/ mode = "step"
             THEN ParseLines(lines, i + 1, mode, ingredients,
                             Append(steps, StripBullet(ln)))
             ELSE ParseLines(lines, i + 1, mode, ingredients, steps)

\* What the basic parser finds in a snippet.
BasicParse(snippet) == ParseLines(StrippedLines(snippet), 1, None, <<>>, <<>>)

(***************************************************************************)
(* The language-model calls of api/index.py.  What the service answers is  *)
(* the environment's choice; a response is a record                        *)
(*   [kind, text, items]                                                   *)
(* of kind "error" (the import, the client or the call raised), "text"     *)
(* (content that is not valid JSON), "json_other" (valid JSON that is not  *)
(* a non-empty list) or "json_list" (a JSON list, its elements in items).  *)
(***************************************************************************)
non_remedy_items == {
    "soft drinks", "liquor", "tobacco", "alcohol", "cigarettes", "smoking",
    "white flour", "white rice", "cane sugar", "processed sugar", "refined sugar",
    "sugar products", "processed foods", "junk food", "fast food", "soda", "cola",
    "beer", "wine", "coffee", "caffeine", "artificial sweeteners", "msg",
    "preservatives", "meats", "pork", "beef", "chicken", "dairy", "milk", "cheese",
    "butter", "especially pork", "cane sugar products", "soft drink", "processed",
    "refined", "artificial", "chemical"}

GenericItems == {"water", "salt", "sugar", "oil"}
GenericItemsAfter == 5       \* generic items are dropped once more than 5 are kept
AiIngredientLimit == 15      \* the loop stops at 15 kept ingredients

\* v.strip() if v else ""
StripOrEmpty(v) == IF Truthy(v) THEN Strip(v) ELSE ""

\* v if v else None
OrNone(v) == IF Truthy(v) THEN v ELSE None

\* The loop of ai_extract_ingredients over parsed_ingredients from index i
\* on.  An element is [kind, name, amount, unit]: kind "dict" is an object
\* with a string name, "skip" anything that is not an object with a name,
\* "bad" an object whose name or amount is not a string, on which .lower()
\* or .strip() raises.  The value is [raised, list].
RECURSIVE AiIngredientLoop(_, _, _)
AiIngredientLoop(items, i, formatted) ==
    IF i > Len(items) THEN [raised |-> FALSE, list |-> formatted]
    ELSE LET ing == items[i]
             ingredient_name == Strip(Lower(ing.name))
             amount == StripOrEmpty(ing.amount)
             unit0 == StripOrEmpty(ing.unit)
             unit == IF unit0 # "" /\ amount # "" /\ Contains(Lower(amount), Lower(unit0))
                     THEN "" ELSE unit0
             kept == Append(formatted,
                            [name |-> Strip(ing.name), amount |-> OrNone(amount),
                             unit |-> OrNone(unit), raw |-> ing.name])
         IN  IF ing.kind = "skip" THEN AiIngredientLoop(items, i + 1, formatted)
             ELSE IF ing.kind = "bad" THEN [raised |-> TRUE, list |-> <<>>]
             ELSE IF \E bad_item \in non_remedy_items : Contains(ingredient_name, bad_item)
             THEN AiIngredientLoop(items, i + 1, formatted)
             ELSE IF ingredient_name \in GenericItems /\ Len(formatted) > GenericItemsAfter
             THEN AiIngredientLoop(items, i + 1, formatted)
             ELSE IF Len(kept) >= AiIngredientLimit
             THEN [raised |-> FALSE, list |-> kept]
             ELSE AiIngredientLoop(items, i + 1, kept)

\* ai_extract_ingredients(text) when OPENAI_API_KEY is set iff has_key and
\* the service answers resp.
ai_extract_ingredients(has_key, resp) ==
    IF ~has_key THEN <<>>
    ELSE IF resp.kind # "json_list" THEN <<>>
    ELSE AiIngredientLoop(resp.items, 1, <<>>).list

FormatStepLimit == 8         \* parsed_steps[:8]
FormatLineLimit == 6         \* lines[:6], sections[:6]

\* One element of parsed_steps as a string.  An element is
\* [kind, step, dosage, timing]: kind "str" is the string step, "step" an
\* object with a 'step' and optional dosage and timing.
StepString(st) ==
    LET dosage == IF Truthy(st.dosage) /\ st.dosage # "As per individual preference"
                  THEN <<"Dosage: " \o st.dosage>> ELSE <<>>
        timing == IF Truthy(st.timing) /\ st.timing \notin {"Throughout the day", "As needed"}
                  THEN <<"Timing: " \o st.timing>> ELSE <<>>
        extras == dosage \o timing
    IN  IF st.kind = "str" \/ extras = <<>> THEN st.step
        ELSE st.step \o " (" \o JoinWith(", ", extras) \o ")"

\* ai_format_remedy_text(text)
ai_format_remedy_text(has_key, resp) ==
    IF ~has_key THEN <<>>
    ELSE IF resp.kind = "json_list" /\ Len(resp.items) > 0
    THEN LET head == Slice(resp.items, 0, FormatStepLimit)
         IN  [i \in 1..Len(head) |-> StepString(head[i])]
    ELSE IF resp.kind = "text"
    THEN Slice(StrippedLines(Strip(resp.text)), 0, FormatLineLimit)
    ELSE <<>>

(***************************************************************************)
(* manual_format_medical_text, format_medical_text and                     *)
(* extract_ingredients_and_steps of api/index.py.                          *)
(***************************************************************************)
practical_instructions == <<
    "Tea Preparation: For most herbs, steep 1-2 teaspoons of dried herb in 1 cup boiling water for 10-15 minutes. Strain and drink 2-3 times daily.",
    "Tincture Use: If using liquid extracts, take 1-3 dropperfuls (about 1-3 ml) in water, 2-3 times daily between meals.",
    "Fresh Juice: For vegetable juices mentioned (celery, cucumber, parsley), drink 4-8 oz fresh juice daily, preferably on an empty stomach.",
    "Dietary Integration: Include the mentioned fruits and vegetables as 50-70% of daily food intake, focusing on fresh, organic produce when possible.",
    "Treatment Duration: Continue herbal protocol for 2-4 weeks initially, then reassess. Consult healthcare provider for serious conditions.",
    "Important Note: Start with smaller doses to test tolerance. Always consult a qualified herbalist or healthcare provider before beginning any herbal treatment program." >>

\* common_herbs of manual_format_medical_text: <<herb, instruction>>.
herb_instructions == <<
    <<"red clover", "Red Clover Tea: Steep 1-2 tsp dried red clover blossoms in 1 cup hot water for 10 minutes. Drink 2-3 cups daily.">>,
    <<"burdock", "Burdock Root Decoction: Simmer 1 tbsp dried burdock root in 2 cups water for 20 minutes. Strain, drink 1/2 cup twice daily.">>,
    <<"turmeric", "Turmeric Paste: Mix 1 tsp turmeric powder + 1/4 tsp black pepper + 1 tbsp coconut oil. Take twice daily with meals.">>,
    <<"ginger", "Ginger Tea: Steep 1 tsp fresh grated ginger in 1 cup hot water for 10 minutes. Add honey if desired. Drink 2-3 times daily.">>,
    <<"nettle", "Nettle Infusion: Pour 1 cup boiling water over 1-2 tsp dried nettle leaves. Steep 10-15 minutes. Drink 2-3 cups daily.">> >>

HerbInstructionLimit == 4    \* herbs_found[:4]
GeneralGuidance == 2         \* practical_instructions[:2]
InstructionLimit == 12       \* steps[:12]

\* re.sub(r'\s+', ' ', text).strip()
NormalizeSpaces(text) == Join(Split(text))

manual_format_medical_text(text) ==
    LET text_lower == Lower(NormalizeSpaces(text))
        found == SelectSeq(herb_instructions, LAMBDA h : Contains(text_lower, h[1]))
        herbs_found == [i \in 1..Len(found) |-> found[i][2]]
        sections == IF herbs_found # <<>>
                    THEN Slice(herbs_found, 0, HerbInstructionLimit)
                         \o Slice(practical_instructions, 0, GeneralGuidance)
                    ELSE practical_instructions
    IN  Slice(sections, 0, FormatLineLimit)

format_medical_text(text, has_key, resp) ==
    LET ai_formatted == ai_format_remedy_text(has_key, resp)
    IN  IF Len(ai_formatted) > 1 THEN ai_formatted
        ELSE manual_format_medical_text(text)

\* extract_ingredients_and_steps(snippet) when OPENAI_API_KEY is set iff
\* has_key, the ingredient call is answered ing_resp and the formatting call
\* fmt_resp.
extract_ingredients_and_steps(snippet, has_key, ing_resp, fmt_resp) ==
    LET basic == BasicParse(snippet)
        ai_ingredients == ai_extract_ingredients(has_key, ing_resp)
        ingredients == IF snippet # "" /\ ai_ingredients # <<>>
                       THEN ai_ingredients ELSE basic.ingredients
        formatted_instructions == format_medical_text(snippet, has_key, fmt_resp)
        steps == IF snippet = "" THEN basic.steps
                 ELSE IF Len(formatted_instructions) > 1 THEN formatted_instructions
                 ELSE IF basic.steps = <<>> THEN <<snippet>>
                 ELSE basic.steps
    IN  [ingredients |-> smart_dedupe_ingredients(ingredients),
         instructions |-> Slice(steps, 0, InstructionLimit)]

(***************************************************************************)
(* SpecExtract: extract_ingredients_and_steps applied to every bounded     *)
(* snippet, with and without the language-model service.                   *)
(***************************************************************************)
\* Lines a passage of a remedy book is made of: the two headings, a bulleted
\* step, an ingredient with amount and unit, a bulleted ingredient.
SnippetLines == <<"Ingredients:", "Method:", "- Boil water", "1 tsp ginger",
                  "* 2 cups Ginger Root">>

Snippets ==
    {JoinWith("\n", [i \in DOMAIN f |-> SnippetLines[f[i]]]) :
        f \in UNION {[1..n -> 1..Len(SnippetLines)] : n \in 0..MaxSnippetLines}}

AiIngredientItems == {
    [kind |-> "dict", name |-> "Ginger", amount |-> "1 tsp", unit |-> "tsp"],
    [kind |-> "dict", name |-> "Tobacco", amount |-> None, unit |-> None],
    [kind |-> "bad", name |-> None, amount |-> None, unit |-> None]}

AiStepItems == {
    [kind |-> "str", step |-> "Steep the ginger.", dosage |-> None, timing |-> None],
    [kind |-> "step", step |-> "Drink the tea", dosage |-> "1 cup", timing |-> "As needed"]}

FailedResponses == {
    [kind |-> "error", text |-> "", items |-> <<>>],
    [kind |-> "text", text |-> "Sorry, I cannot help.", items |-> <<>>],
    [kind |-> "json_other", text |-> "", items |-> <<>>]}

JsonLists(elements) ==
    {[kind |-> "json_list", text |-> "", items |-> l] :
        l \in UNION {[1..n -> elements] : n \in 0..MaxAiItems}}

IngredientResponses == FailedResponses \cup JsonLists(AiIngredientItems)

FormatResponses ==
    FailedResponses
    \cup {[kind |-> "text", text |-> "Boil it.\n\n Drink it. ", items |-> <<>>]}
    \cup JsonLists(AiStepItems)

InitExtract ==
    /\ ChunkIdle
    /\ DedupeIdle
    /\ ServerIdle
    /\ SearchIdle
    /\ LoopIdle
    /\ ex_snippet \in Snippets
    /\ ex_key \in BOOLEAN
    /\ ex_ing_resp = NoResponse /\ ex_fmt_resp = NoResponse
    /\ ex_out = NoExtract
    /\ ex_pc = "input"

\* extract_ingredients_and_steps without OPENAI_API_KEY: no call is made.
ExtractWithoutKey ==
    /\ ex_pc = "input" /\ ~ex_key
    /\ ex_out' = extract_ingredients_and_steps(ex_snippet, FALSE, NoResponse, NoResponse)
    /\ ex_pc' = "no_key"
    /\ UNCHANGED <<ex_snippet, ex_key, ex_ing_resp, ex_fmt_resp, cw_vars, sd_vars, srv_vars, ts_vars, el_vars>>

\* extract_ingredients_and_steps with OPENAI_API_KEY: both calls are made
\* when the snippet is not empty.
ExtractWithKey ==
    /\ ex_pc = "input" /\ ex_key
    /\ \E ing_resp \in IngredientResponses, fmt_resp \in FormatResponses :
           /\ ex_ing_resp' = IF ex_snippet = "" THEN NoResponse ELSE ing_resp
           /\ ex_fmt_resp' = IF ex_snippet = "" THEN NoResponse ELSE fmt_resp
           /\ ex_out' = extract_ingredients_and_steps(ex_snippet, TRUE, ing_resp, fmt_resp)
    /\ ex_pc' = "called"
    /\ UNCHANGED <<ex_snippet, ex_key, cw_vars, sd_vars, srv_vars, ts_vars, el_vars>>

NextExtract == ExtractWithoutKey \/ ExtractWithKey

SpecExtract == InitExtract /\ [][NextExtract]_vars

(***************************************************************************)
(* load_epub_books of api/index.py.  What the process finds when it loads  *)
(* is its environment env = [libs, files]: libs tells whether ebooklib and *)
(* bs4 import, files[f] is what is stored under FileNames[f].  A file is   *)
(* [exists, readable, items], an item [kind, name, text] with kind         *)
(*   "doc"         a document whose markup yields text,                    *)
(*   "empty"       a document without content,                             *)
(*   "other"       an item that is not a document,                         *)
(*   "doc_raises"  a document whose content cannot be parsed,              *)
(*   "type_raises" an item whose get_type() raises.                        *)
(* A chunk is [book, chapter, pos, text].                                  *)
(***************************************************************************)
FileNames == <<"1.epub", "2.epub", "test-book.epub">>

MinDocChars == 50        \* len(text) > 50
LoadMaxWords == 8        \* chunk_words(text, 900, 150): the 900, scaled
LoadOverlap == 2         \* chunk_words(text, 900, 150): the 150, scaled

SampleChunks == <<
    [book |-> "Sample Book 1", chapter |-> "Digestive Issues", pos |-> 0,
     text |-> "Ginger remedy for nausea and morning sickness. Ingredients: 1 tsp fresh ginger root, 1 cup hot water, honey to taste. Instructions: Peel and slice fresh ginger. Steep in hot water for 10 minutes. Add honey and drink warm. Effective for motion sickness and pregnancy nausea."],
    [book |-> "Sample Book 1", chapter |-> "Respiratory Health", pos |-> 0,
     text |-> "Honey and lemon for sore throat and cough. Ingredients: 2 tbsp raw honey, 1 fresh lemon juiced, 1 cup warm water, pinch of salt. Instructions: Mix honey and lemon juice in warm water. Add salt and stir. Sip slowly throughout the day. Soothes throat irritation."],
    [book |-> "Sample Book 1", chapter |-> "Pain Management", pos |-> 0,
     text |-> "Turmeric paste for joint pain and inflammation. Ingredients: 2 tsp turmeric powder, coconut oil to make paste, black pepper pinch. Instructions: Mix turmeric with enough coconut oil to form thick paste. Add black pepper. Apply to affected area and cover with cloth. Leave for 30 minutes."],
    [book |-> "Sample Book 2", chapter |-> "Sleep Disorders", pos |-> 0,
     text |-> "Chamomile tea for insomnia and anxiety. Ingredients: 1 tbsp dried chamomile flowers, 1 cup boiling water, honey optional. Instructions: Pour boiling water over chamomile flowers. Steep covered for 15 minutes. Strain and add honey if desired. Drink 30 minutes before bedtime."],
    [book |-> "Sample Book 2", chapter |-> "Digestive Health", pos |-> 0,
     text |-> "Apple cider vinegar for heartburn and acid reflux. Ingredients: 1 tbsp raw apple cider vinegar with mother, 1 cup warm water, honey to taste. Instructions: Mix apple cider vinegar in warm water. Add honey to improve taste. Drink 30 minutes before meals to prevent heartburn."],
    [book |-> "Sample Book 2", chapter |-> "Skin Conditions", pos |-> 0,
     text |-> "Aloe vera gel for burns and skin irritation. Ingredients: Fresh aloe vera leaf, vitamin E oil optional. Instructions: Cut aloe leaf and extract clear gel. Apply directly to affected skin. For enhanced healing, mix with a few drops of vitamin E oil. Reapply 2-3 times daily."],
    [book |-> "Sample Book 1", chapter |-> "Headaches", pos |-> 0,
     text |-> "Peppermint oil for headache relief. Ingredients: 2-3 drops pure peppermint essential oil, 1 tsp carrier oil like coconut oil. Instructions: Dilute peppermint oil with carrier oil. Massage gently onto temples and forehead. Avoid eye area. Also inhale directly for sinus headaches."],
    [book |-> "Sample Book 2", chapter |-> "Cold and Flu", pos |-> 0,
     text |-> "Elderberry syrup for immune support. Ingredients: 1 cup dried elderberries, 3 cups water, 1 cup raw honey, 1 tsp ginger powder, cinnamon stick. Instructions: Simmer elderberries in water for 15 minutes. Strain and add honey while warm. Add spices. Take 1 tbsp daily during cold season."],
    [book |-> "Sample Book 1", chapter |-> "Circulation", pos |-> 0,
     text |-> "Cayenne pepper for poor circulation. Ingredients: 1/4 tsp cayenne pepper powder, 1 cup warm water, lemon juice optional. Instructions: Mix cayenne pepper in warm water. Add lemon juice to taste. Drink slowly. Start with smaller amount and increase gradually. Improves blood flow."],
    [book |-> "Sample Book 2", chapter |-> "Detox", pos |-> 0,
     text |-> "Dandelion root tea for liver detox. Ingredients: 1 tsp dried dandelion root, 1 cup boiling water, lemon slice. Instructions: Pour boiling water over dandelion root. Steep for 10 minutes. Strain and add lemon slice. Drink twice daily to support liver function and detoxification."] >>

\* enumerate(text_chunks) turned into chunks of one document.
DocChunks(book, chapter, text_chunks) ==
    [p \in 1..Len(text_chunks) |->
        [book |-> book, chapter |-> chapter, pos |-> p - 1, text |-> text_chunks[p]]]

\* The chunks one item adds (an exception inside the document is caught
\* and the document skipped).
ItemChunks(book, item) ==
    LET text == NormalizeSpaces(item.text)
    IN  IF item.kind # "doc" \/ item.text = "" THEN <<>>
        ELSE IF Len(text) <= MinDocChars THEN <<>>
        ELSE IF chunk_words_raises(text, LoadMaxWords) THEN <<>>
        ELSE DocChunks(book, item.name, chunk_words(text, LoadMaxWords, LoadOverlap))

\* The loop over the items of one book from index i on: an exception of
\* get_type() ends the book and keeps what was appended before.
RECURSIVE BookChunks(_, _, _)
BookChunks(book, items, i) ==
    IF i > Len(items) \/ items[i].kind = "type_raises" THEN <<>>
    ELSE ItemChunks(book, items[i]) \o BookChunks(book, items, i + 1)

\* The loop over epub_files from index f on.
RECURSIVE EpubChunks(_, _)
EpubChunks(files, f) ==
    IF f > Len(FileNames) THEN <<>>
    ELSE (IF files[f].exists /\ files[f].readable
          THEN BookChunks(FileNames[f], files[f].items, 1) ELSE <<>>)
         \o EpubChunks(files, f + 1)

\* The local variable chunks when load_epub_books reaches line 101.
LoadedChunks(env) == IF env.libs THEN EpubChunks(env.files, 1) ELSE <<>>

\* load_epub_books without its fallback to the samples (lines 101-126).
LoadWithoutFallback(bd, env) ==
    IF bd # <<>> THEN bd ELSE LoadedChunks(env)

\* load_epub_books without its guard (lines 25-26).
LoadWithoutGuard(bd, env) ==
    IF LoadedChunks(env) = <<>> THEN SampleChunks ELSE LoadedChunks(env)

\* books_data after load_epub_books() called with books_data = bd.
load_epub_books(bd, env) ==
    IF bd # <<>> THEN bd
    ELSE IF LoadedChunks(env) = <<>> THEN SampleChunks
    ELSE LoadedChunks(env)

(***************************************************************************)
(* simple_text_search of api/index.py.                                     *)
(***************************************************************************)
\* s.count(sub): the non-overlapping occurrences of sub in s from p on.
RECURSIVE CountFrom(_, _, _)
CountFrom(s, sub, p) ==
    LET hits == {i \in p..(Len(s) - Len(sub) + 1) : HasAt(s, i, sub)}
    IN  IF hits = {} THEN 0
        ELSE 1 + CountFrom(s, sub, (CHOOSE i \in hits : \A j \in hits : i <= j) + Len(sub))

Count(s, sub) == IF sub = "" THEN Len(s) + 1 ELSE CountFrom(s, sub, 1)

\* seq[:n] of Python for any integer n
SliceTo(seq, n) ==
    IF n >= 0 THEN SubSeq(seq, 1, Min(n, Len(seq)))
    ELSE SubSeq(seq, 1, Max(Len(seq) + n, 0))

\* The elements of a list as a set.
Range(seq) == {seq[i] : i \in 1..Len(seq)}

\* sum of a list of integers
RECURSIVE Sum(_)
Sum(ns) == IF ns = <<>> THEN 0 ELSE Head(ns) + Sum(Tail(ns))

remedy_keywords == {"remedy", "treatment", "cure", "heal", "recipe", "medicine",
                    "therapeutic", "natural", "herbal", "traditional", "preparation",
                    "formula", "mixture"}
ingredient_keywords == {"ingredient", "ingredients", "herb", "herbs", "plant", "plants",
                        "root", "leaf", "flower", "extract", "oil", "tea", "tincture"}

SpecificScore == 50          \* a sentence that is about the query
RemedyContextBonus == 30     \* ... and mentions a remedy keyword
GenericScore == 10           \* a sentence that lists many conditions
GenericPenalty == 30         \* no specific sentence at all
MaxConditions == 3           \* condition_count <= 3
WordScore == 20              \* int(word_match_ratio * 20)
ProximityScore == 5          \* words_in_sentence * 5
IngredientBonus == 3
RemedyBonus == 5
PriorityBookBonus == 20
TestBookPenalty == 10

\* What one sentence adds to the score in the exact-match loop, and whether
\* it is a specific sentence.
SentenceIsSpecific(sentence) ==
    Count(sentence, "cancer") + Count(sentence, ",") + Count(sentence, "disease")
        <= MaxConditions

SentenceScore(sentence) ==
    IF SentenceIsSpecific(sentence)
    THEN SpecificScore + (IF ContainsAny(sentence, remedy_keywords)
                          THEN RemedyContextBonus ELSE 0)
    ELSE GenericScore

\* The score after the exact-match block (lines 622-648).
ExactScore(original_query, text_lower) ==
    LET sentences == SplitOn(text_lower, ".")
        hits == SelectSeq([i \in 1..Len(sentences) |-> Strip(sentences[i])],
                          LAMBDA st : Contains(st, original_query))
        score == Sum([i \in 1..Len(hits) |-> SentenceScore(hits[i])])
    IN  IF ~Contains(text_lower, original_query) THEN 0
        ELSE IF \E i \in 1..Len(hits) : SentenceIsSpecific(hits[i]) THEN score
        ELSE Max(0, score - GenericPenalty)

\* The word-match block (lines 651-666) raises ZeroDivisionError.
WordScoreRaises(original_query, text_lower) ==
    ExactScore(original_query, text_lower) = 0 /\ Split(original_query) = <<>>

\* What the word-match block adds when the exact score is 0.
WordMatchScore(original_query, text_lower) ==
    LET query_words == Range(Split(original_query))
        found == Cardinality({w \in query_words : Contains(text_lower, w)})
        sentences == SplitOn(text_lower, ".")
        InSentence(i) == Cardinality({w \in query_words : Contains(sentences[i], w)})
    IN  IF 10 * found >= 8 * Cardinality(query_words)           \* ratio >= 0.8
        THEN (found * WordScore) \div Cardinality(query_words)
             + Sum([i \in 1..Len(sentences) |->
                       IF InSentence(i) >= 2 THEN InSentence(i) * ProximityScore ELSE 0])
        ELSE 0

\* The score of a chunk whose lower-cased text is text_lower (defined when
\* the word-match block does not raise).
ScoreOfText(original_query, text_lower, book_name) ==
    LET exact == ExactScore(original_query, text_lower)
        base == IF exact = 0 THEN WordMatchScore(original_query, text_lower) ELSE exact
        bonus == base
                 + (IF ContainsAny(text_lower, ingredient_keywords) THEN IngredientBonus ELSE 0)
                 + (IF ContainsAny(text_lower, remedy_keywords) THEN RemedyBonus ELSE 0)
    IN  IF base = 0 THEN 0
        ELSE IF ContainsAny(book_name, {"1.epub", "2.epub"}) THEN bonus + PriorityBookBonus
        ELSE IF Contains(book_name, "test-book") THEN Max(0, bonus - TestBookPenalty)
        ELSE bonus

\* The score of one chunk.  (x \in {e} names the value of e.)
ChunkScore(original_query, chunk) ==
    CHOOSE score \in {ScoreOfText(original_query, text_lower, book_name) :
                          text_lower \in {Lower(chunk.text)},
                          book_name \in {Lower(chunk.book)}} : TRUE

\* The scores of the chunks c, c + 1, ... of bd, in that order.
RECURSIVE ChunkScores(_, _, _)
ChunkScores(original_query, bd, c) ==
    IF c > Len(bd) THEN <<>>
    ELSE <<ChunkScore(original_query, bd[c])>> \o ChunkScores(original_query, bd, c + 1)

\* The indices left in the order of books_data.
UnsortedByScore(scores) == [r \in 1..Len(scores) |-> r]

\* list.sort(key=score, reverse=True) applied to the indices 1..Len(scores):
\* stable, so equal scores keep their order.
SortedByScore(scores) ==
    LET Before(i, j) == scores[i] > scores[j] \/ (scores[i] = scores[j] /\ i < j)
        Rank(i) == 1 + Cardinality({j \in 1..Len(scores) : Before(j, i)})
    IN  [r \in 1..Len(scores) |-> CHOOSE i \in 1..Len(scores) : Rank(i) = r]

simple_text_search_raises(bd, query) ==
    \E c \in 1..Len(bd) : WordScoreRaises(Strip(Lower(query)), Lower(bd[c].text))

\* The chunks of bd with a positive score, best first, at most max_results
\* of them (lines 686-694).
TopChunks(bd, scores, max_results) ==
    LET results == SelectSeq(SortedByScore(scores), LAMBDA c : scores[c] > 0)
    IN  SliceTo([r \in 1..Len(results) |-> bd[results[r]]], max_results)

\* simple_text_search(query, max_results) over books_data = bd, when it
\* does not raise.
simple_text_search(bd, query, max_results) ==
    CHOOSE top \in {TopChunks(bd, ChunkScores(original_query, bd, 1), max_results) :
                       original_query \in {Strip(Lower(query))}} : TRUE

(***************************************************************************)
(* Remedies: ids, links and titles.                                        *)
(***************************************************************************)
AFFILIATE_TAG == "YOURTAG-20"

\* urllib.parse.quote_plus on one character of the texts modelled here.
QuotePlusCh(c) ==
    IF IsLetter(c) \/ IsDigit(c) \/ c \in {"_", ".", "-", "~"} THEN c
    ELSE IF c = " " THEN "+"
    ELSE IF c = "'" THEN "%27"
    ELSE IF c = "," THEN "%2C"
    ELSE IF c = ":" THEN "%3A"
    ELSE IF c = "(" THEN "%28"
    ELSE IF c = ")" THEN "%29"
    ELSE IF c = "/" THEN "%2F"
    ELSE IF c = "\n" THEN "%0A"
    ELSE IF c = "\t" THEN "%09"
    ELSE "%3F"

RECURSIVE QuotePlusRange(_, _, _)
QuotePlusRange(s, a, b) ==
    IF a > b THEN ""
    ELSE IF a = b THEN QuotePlusCh(Ch(s, a))
    ELSE QuotePlusRange(s, a, (a + b) \div 2) \o QuotePlusRange(s, (a + b) \div 2 + 1, b)

quote_plus(s) == QuotePlusRange(s, 1, Len(s))

ToolWords == {"mortar", "pestle", "gauze", "bandage", "thermometer"}

\* affiliate_search_url(query) of api/index.py
affiliate_search_url(query) ==
    "https://www.amazon.com/s?k=" \o quote_plus(query)
    \o "&i=" \o (IF ContainsAny(Lower(query), ToolWords) THEN "hpc" ELSE "grocery")
    \o "&tag=" \o AFFILIATE_TAG

\* affiliate_search_url(query) of api/simple.py
simple_affiliate_search_url(query) ==
    "https://www.amazon.com/s?k=" \o quote_plus(query) \o "&i=grocery&tag=" \o AFFILIATE_TAG

HashSpace == 4096    \* the values the model's digest takes (16^12 in the code)

\* hashlib.md5(s.encode()).hexdigest()[:12]: a digest, a function of the
\* text that is not one-to-one.
Md5Hex12(s) ==
    ToString((Len(s) + 31 * Count(s, "e") + 17 * Count(s, "a")) % HashSpace)

\* s with every character of chars removed (chained str.replace(c, "")).
RECURSIVE RemoveRange(_, _, _, _)
RemoveRange(s, chars, a, b) ==
    IF a > b THEN ""
    ELSE IF a = b THEN (IF Ch(s, a) \in chars THEN "" ELSE Ch(s, a))
    ELSE RemoveRange(s, chars, a, (a + b) \div 2)
         \o RemoveRange(s, chars, (a + b) \div 2 + 1, b)

TitleKeyChars == 50      \* [:50]
TitleChars == 100        \* first_sentence[:100]
SnippetChars == 200      \* chunk["text"][:200]

\* title.lower().replace(" ", "").replace("-", "").replace(":", "")[:50]
TitleKey(title) ==
    Slice(RemoveRange(Lower(title), {" ", "-", ":"}, 1, Len(title)), 0, TitleKeyChars)

\* ingredient.copy() with the link added
WithLink(ingredient, link) ==
    [name |-> ingredient.name, amount |-> ingredient.amount,
     unit |-> ingredient.unit, raw |-> ingredient.raw, link |-> link]

(***************************************************************************)
(* handler.handle_search of api/index.py: the loop over matching_chunks.   *)
(* llm = [key, ing, fmt] is what the language-model service does during    *)
(* the request: ing[i] and fmt[i] answer the calls made for chunk i.       *)
(***************************************************************************)
strict_keywords == {"remedy", "treatment", "recipe", "for ", "cure", "heal"}
irrelevant_keywords == {"children", "kids", "baby", "infant", "toddler", "pediatric"}
generic_keywords == {"detox", "cleansing", "general health", "overall wellness"}
common_ingredients == <<"ginger", "honey", "lemon", "water", "oil", "tea", "garlic",
                        "turmeric", "cinnamon", "pepper", "salt", "vinegar", "chamomile",
                        "mint", "basil">>

IrrelevantBelow == 2     \* query_relevance < 2
GenericBelow == 3        \* query_relevance < 3
BasicRemedyChunks == 3   \* i < 3
BasicIngredientLimit == 5

\* query_count + remedy_context_count * 2
QueryRelevance(original_query, text_lower) ==
    LET sentences == SplitOn(text_lower, ".")
        with_query == SelectSeq(sentences, LAMBDA st : Contains(st, original_query))
        in_context == SelectSeq(with_query, LAMBDA st : ContainsAny(st, remedy_keywords))
    IN  IF Contains(text_lower, original_query)
        THEN Count(text_lower, original_query) + Len(in_context) * 2
        ELSE 0

\* The chunk is skipped before anything is extracted from it.
SkipsChunk(original_query, text_lower) ==
    LET query_relevance == QueryRelevance(original_query, text_lower)
    IN  \/ ContainsAny(text_lower, irrelevant_keywords) /\ query_relevance < IrrelevantBelow
        \/ ContainsAny(text_lower, generic_keywords) /\ query_relevance < GenericBelow

IsRemedyChunk(text_lower) ==
    /\ ContainsAny(text_lower, {"ingredient", "ingredients"})
    /\ ContainsAny(text_lower, strict_keywords)

\* The title of a proper remedy.
StrictTitle(chunk, query) ==
    LET first == Strip(SplitOn(chunk.text, ".")[1])
        first_sentence == IF Len(first) > TitleChars
                          THEN Slice(first, 0, TitleChars) \o "..." ELSE first
    IN  IF first_sentence # "" THEN first_sentence ELSE "Remedy for " \o query

BasicTitle(query) == "Traditional approach for " \o query

RemedyId(chunk, title) == Md5Hex12(Slice(chunk.text, 0, SnippetChars) \o title)

Source(chunk) == [book |-> chunk.book, chapter |-> chunk.chapter, pos |-> chunk.pos]

\* The remedy appended at lines 1593-1604.
StrictRemedy(chunk, query, extracted) ==
    [id |-> RemedyId(chunk, StrictTitle(chunk, query)),
     title |-> StrictTitle(chunk, query),
     summary |-> None,
     ingredients |-> [n \in 1..Len(extracted.ingredients) |->
                         WithLink(extracted.ingredients[n],
                                  affiliate_search_url(extracted.ingredients[n].name))],
     instructions |-> extracted.instructions,
     source |-> Source(chunk)]

\* The ingredients found by name in the text (lines 1631-1647).
FoundIngredients(text_lower) ==
    LET found == SelectSeq(common_ingredients, LAMBDA g : Contains(text_lower, g))
        kept == Slice(found, 0, BasicIngredientLimit)
    IN  [n \in 1..Len(kept) |->
            [name |-> Title(kept[n]), amount |-> None, unit |-> None,
             raw |-> kept[n], link |-> affiliate_search_url(kept[n])]]

\* The remedy appended at lines 1649-1660.
BasicRemedy(chunk, query, extracted) ==
    [id |-> RemedyId(chunk, BasicTitle(query)),
     title |-> BasicTitle(query),
     summary |-> IF Len(chunk.text) > SnippetChars
                 THEN Slice(chunk.text, 0, SnippetChars) \o "..." ELSE chunk.text,
     ingredients |-> IF extracted.ingredients # <<>> THEN extracted.ingredients
                     ELSE FoundIngredients(Lower(chunk.text)),
     instructions |-> IF extracted.instructions # <<>> THEN extracted.instructions
                      ELSE <<"Refer to traditional preparation methods">>,
     source |-> Source(chunk)]

\* The duplicate check left out.
NeverDuplicate(remedy, used_remedy_ids, used_titles) == FALSE

\* Whether a remedy is a duplicate of one already used.
IsDuplicate(remedy, used_remedy_ids, used_titles) ==
    remedy.id \in used_remedy_ids \/ TitleKey(remedy.title) \in used_titles

\* The remedy the loop body has to append for a chunk that is not skipped,
\* as a list of one remedy, or of none when the chunk gives no remedy;
\* none_yet is len(remedies) == 0 (lines 1557-1660).
MadeRemedy(chunk, i, query, extracted, none_yet) ==
    IF IsRemedyChunk(Lower(chunk.text)) /\ extracted.ingredients # <<>>
    THEN <<StrictRemedy(chunk, query, extracted)>>
    ELSE IF none_yet /\ i - 1 < BasicRemedyChunks
    THEN <<BasicRemedy(chunk, query, extracted)>>
    ELSE <<>>

\* The loop over matching_chunks from 1-based index i on; the value is the
\* list remedies when the loop ends.  AfterChunk is the rest of the loop
\* body once the remedy of chunk i is made.
RECURSIVE SearchLoop(_, _, _, _, _, _, _, _)
\* The rest of the loop body without the break of lines 1663-1664.
AfterChunkWithoutBreak(matching_chunks, i, query, max_results, llm, remedies, used_remedy_ids, used_titles, made) ==
    IF made = <<>> \/ IsDuplicate(made[1], used_remedy_ids, used_titles)
    THEN SearchLoop(matching_chunks, i + 1, query, max_results, llm,
                    remedies, used_remedy_ids, used_titles)
    ELSE CHOOSE out \in
             {SearchLoop(matching_chunks, i + 1, query, max_results, llm, rs, ids, titles) :
                  rs \in {Append(remedies, made[1])},
                  ids \in {used_remedy_ids \cup {made[1].id}},
                  titles \in {used_titles \cup {TitleKey(made[1].title)}}} : TRUE

AfterChunk(matching_chunks, i, query, max_results, llm, remedies, used_remedy_ids, used_titles, made) ==
    IF made = <<>>
    THEN IF Len(remedies) >= max_results THEN remedies
         ELSE SearchLoop(matching_chunks, i + 1, query, max_results, llm,
                         remedies, used_remedy_ids, used_titles)
    ELSE IF IsDuplicate(made[1], used_remedy_ids, used_titles)
    THEN SearchLoop(matching_chunks, i + 1, query, max_results, llm,
                    remedies, used_remedy_ids, used_titles)
    ELSE IF Len(remedies) + 1 >= max_results THEN Append(remedies, made[1])
    ELSE CHOOSE out \in
             {SearchLoop(matching_chunks, i + 1, query, max_results, llm, rs, ids, titles) :
                  rs \in {Append(remedies, made[1])},
                  ids \in {used_remedy_ids \cup {made[1].id}},
                  titles \in {used_titles \cup {TitleKey(made[1].title)}}} : TRUE

SearchLoop(matching_chunks, i, query, max_results, llm, remedies, used_remedy_ids, used_titles) ==
    IF i > Len(matching_chunks) THEN remedies
    ELSE IF SkipsChunk(Strip(Lower(query)), Lower(matching_chunks[i].text))
    THEN SearchLoop(matching_chunks, i + 1, query, max_results, llm,
                    remedies, used_remedy_ids, used_titles)
    ELSE CHOOSE out \in
             {AfterChunk(matching_chunks, i, query, max_results, llm,
                         remedies, used_remedy_ids, used_titles, made) :
                  made \in {MadeRemedy(matching_chunks[i], i, query, extracted, remedies = <<>>) :
                               extracted \in {extract_ingredients_and_steps(
                                                  matching_chunks[i].text, llm.key,
                                                  llm.ing[i], llm.fmt[i])}}} : TRUE

(***************************************************************************)
(* Requests and responses.  The body of a POST /api/search is              *)
(*   [kind, q_is, q, k_is, k]                                              *)
(* of kind "no_length" (no Content-Length header), "bad_json" (not JSON),  *)
(* "not_object" (JSON that is not an object) or "object"; q_is tells       *)
(* whether 'q' is "absent", a "str" (then q) or "other" (a JSON list),     *)
(* k_is whether 'k' is "absent", an "int" (then k) or "other" (a JSON      *)
(* list).  A response is                                                   *)
(*   [status, type, keys, ok, error, detail, remedies, chunks,             *)
(*    chunks_loaded]                                                       *)
(* where keys names the fields of the JSON object sent.                    *)
(***************************************************************************)
DefaultK == 5

HtmlPage == [status |-> 200, type |-> "html"] @@ NoBody

\* {"ok": True, "remedies": remedies}
RemediesResponse(remedies) ==
    [status |-> 200, type |-> "json"]
    @@ [NoBody EXCEPT !.keys = {"ok", "remedies"}, !.ok = TRUE, !.remedies = remedies]

\* send_error_response(message)
ErrorResponse(message) ==
    [status |-> 400, type |-> "json"]
    @@ [NoBody EXCEPT !.keys = {"ok", "error"}, !.ok = FALSE, !.error = message]

\* FastAPI's answer to raise HTTPException(status_code, detail), and to a
\* body its validation rejects (422)
DetailResponse(status, detail) ==
    [status |-> status, type |-> "json"]
    @@ [NoBody EXCEPT !.keys = {"detail"}, !.detail = detail]

\* The 404 of the handler of api/index.py
NotFoundResponse == DetailResponse(404, "Not Found")

\* A health response that reports no count.
HealthResponseWithoutCount(keys, n) ==
    [status |-> 200, type |-> "json"] @@ [NoBody EXCEPT !.keys = keys]

\* {"status": "healthy", "chunks_loaded": ..., ...}
HealthResponse(keys, n) ==
    [status |-> 200, type |-> "json"]
    @@ [NoBody EXCEPT !.keys = keys, !.chunks_loaded = n]

\* The JSON object /api/debug of api/index.py sends.
DebugResponse ==
    [status |-> 200, type |-> "json"]
    @@ [NoBody EXCEPT !.keys = {"epub_libraries", "epub_files_found", "processing_log"}]

\* An upload response that carries a remedies field.
UploadResponseWithRemedies(n) ==
    [status |-> 200, type |-> "json"]
    @@ [NoBody EXCEPT !.keys = {"ok", "chunks", "remedies"}, !.ok = TRUE, !.chunks = n]

\* {"ok": True, "chunks": n}
UploadResponse(n) ==
    [status |-> 200, type |-> "json"]
    @@ [NoBody EXCEPT !.keys = {"ok", "chunks"}, !.ok = TRUE, !.chunks = n]

\* search_params.get('q', '') and search_params.get('k', 5), when they are
\* a string and an integer
BodyQuery(body) == IF body.q_is = "absent" THEN "" ELSE body.q
BodyK(body) == IF body.k_is = "absent" THEN DefaultK ELSE body.k

\* The exception the try block of handle_search raises before anything is
\* sent, None when it raises none.
handle_search_exception(bd, body) ==
    IF body.kind = "no_length" THEN "TypeError"
    ELSE IF body.kind = "bad_json" THEN "JSONDecodeError"
    ELSE IF body.kind = "not_object" THEN "AttributeError"
    ELSE IF body.q_is = "other" THEN "AttributeError"
    ELSE IF simple_text_search_raises(bd, BodyQuery(body)) THEN "ZeroDivisionError"
    ELSE IF body.k_is = "other" THEN "TypeError"
    ELSE None

\* What handle_search sends, books_data = bd being already loaded.
handle_search(bd, body, llm) ==
    IF body.kind = "object" /\ bd = <<>> THEN ErrorResponse("No remedy data loaded.")
    ELSE IF handle_search_exception(bd, body) # None
    THEN ErrorResponse("Search error: " \o handle_search_exception(bd, body))
    ELSE CHOOSE sent \in
             {RemediesResponse(remedies) :
                  remedies \in {SearchLoop(matching_chunks, 1, BodyQuery(body), BodyK(body),
                                           llm, <<>>, {}, {}) :
                                    matching_chunks \in {simple_text_search(
                                        bd, BodyQuery(body), BodyK(body) * 2)}}} : TRUE

(***************************************************************************)
(* api/simple.py: extraction, search and upload.  Its chunks carry no      *)
(* book, modelled as book = None.                                          *)
(***************************************************************************)
\* slugify(name).lower() on the texts modelled here: letters lower-cased,
\* apostrophes dropped, every other run of non-alphanumerics one hyphen,
\* no hyphen at either end.
RECURSIVE SlugFrom(_, _, _)
SlugFrom(s, i, out) ==
    IF i > Len(s) THEN (IF EndsWith(out, "-") THEN SubSeq(out, 1, Len(out) - 1) ELSE out)
    ELSE IF IsLetter(Ch(s, i)) \/ IsDigit(Ch(s, i))
    THEN SlugFrom(s, i + 1, out \o LowerCh(Ch(s, i)))
    ELSE IF Ch(s, i) = "'" \/ out = "" \/ EndsWith(out, "-") THEN SlugFrom(s, i + 1, out)
    ELSE SlugFrom(s, i + 1, out \o "-")

Slugify(s) == SlugFrom(s, 1, "")

\* The deduplication loop of api/simple.py (lines 96-102).
RECURSIVE SlugDedupe(_, _, _)
SlugDedupe(ingredients, seen, dedup) ==
    IF ingredients = <<>> THEN dedup
    ELSE IF Slugify(Head(ingredients).name) \in seen
    THEN SlugDedupe(Tail(ingredients), seen, dedup)
    ELSE SlugDedupe(Tail(ingredients), seen \cup {Slugify(Head(ingredients).name)},
                    Append(dedup, Head(ingredients)))

\* extract_ingredients_and_steps(snippet) of api/simple.py
simple_extract_ingredients_and_steps(snippet) ==
    [ingredients |-> SlugDedupe(BasicParse(snippet).ingredients, {}, <<>>),
     instructions |-> Slice(BasicParse(snippet).steps, 0, InstructionLimit)]

simple_remedy_keywords == {"remedy", "treatment", "cure", "heal", "recipe"}

\* The score simple_text_search of api/simple.py gives one chunk.
SimpleChunkScore(query, chunk) ==
    LET text_lower == Lower(chunk.text)
        query_words == Range(Split(Lower(query)))
        Counted(w) == Count(text_lower, w)
        RECURSIVE CountAll(_)
        CountAll(ws) == IF ws = {} THEN 0
                        ELSE LET w == CHOOSE x \in ws : TRUE
                             IN  Counted(w) + CountAll(ws \ {w})
    IN  CountAll(query_words)
        + (IF ContainsAny(text_lower, simple_remedy_keywords) THEN RemedyBonus ELSE 0)
        + (IF Contains(text_lower, "ingredient") THEN IngredientBonus ELSE 0)

\* simple_text_search(query, max_results) of api/simple.py over bd
simple_simple_text_search(bd, query, max_results) ==
    LET scores == [c \in 1..Len(bd) |-> SimpleChunkScore(query, bd[c])]
        order == SortedByScore(scores)
        results == SelectSeq(order, LAMBDA c : scores[c] > 0)
    IN  SliceTo([r \in 1..Len(results) |-> bd[results[r]]], max_results)

SimpleTitleWindow == 150     \* chunk["text"][:150]
SimpleRemedyLimit == 3       \* len(remedies) >= 3

\* The remedy api/simple.py makes of a chunk.
SimpleRemedy(chunk, extracted) ==
    LET first == Strip(SplitOn(Slice(chunk.text, 0, SimpleTitleWindow), ".")[1])
    IN  [id |-> Md5Hex12(chunk.chapter \o ToString(chunk.pos)),
         title |-> IF Len(first) > TitleChars THEN Slice(first, 0, TitleChars) \o "..."
                   ELSE first,
         summary |-> None,
         ingredients |-> [n \in 1..Len(extracted.ingredients) |->
                             WithLink(extracted.ingredients[n],
                                 simple_affiliate_search_url(extracted.ingredients[n].name))],
         instructions |-> extracted.instructions,
         source |-> [chapter |-> chunk.chapter, pos |-> chunk.pos]]

\* The loop of search over matching_chunks from index i on.
RECURSIVE SimpleSearchLoop(_, _, _)
SimpleSearchLoop(matching_chunks, i, remedies) ==
    IF i > Len(matching_chunks) THEN remedies
    ELSE LET chunk == matching_chunks[i]
             extracted == simple_extract_ingredients_and_steps(chunk.text)
         IN  IF IsRemedyChunk(Lower(chunk.text)) /\ extracted.ingredients # <<>>
             THEN IF Len(remedies) + 1 >= SimpleRemedyLimit
                  THEN Append(remedies, SimpleRemedy(chunk, extracted))
                  ELSE SimpleSearchLoop(matching_chunks, i + 1,
                                        Append(remedies, SimpleRemedy(chunk, extracted)))
             ELSE SimpleSearchLoop(matching_chunks, i + 1, remedies)

\* FastAPI accepts the body as a SearchQuery (q: str, k: int = 5).
ValidSearchQuery(body) ==
    body.kind = "object" /\ body.q_is = "str" /\ body.k_is \in {"absent", "int"}

\* A search that makes no check of books_data.
SearchWithoutDataCheck(bd, body) ==
    IF ~ValidSearchQuery(body) THEN DetailResponse(422, "validation error")
    ELSE RemediesResponse(
             SimpleSearchLoop(simple_simple_text_search(bd, body.q, BodyK(body) * 2),
                              1, <<>>))

\* What POST /api/search of api/simple.py answers.
simple_search(bd, body) ==
    IF ~ValidSearchQuery(body) THEN DetailResponse(422, "validation error")
    ELSE IF bd = <<>>
    THEN DetailResponse(400, "No data available. Upload an EPUB file first.")
    ELSE RemediesResponse(
             SimpleSearchLoop(simple_simple_text_search(bd, body.q, BodyK(body) * 2),
                              1, <<>>))

\* The loop of upload_epub over the items from index i on, books_data being
\* bd so far; epub_lib = "no_item_document" when epub.ITEM_DOCUMENT does not
\* resolve.  The value is [raised, bd].
RECURSIVE UploadItems(_, _, _, _)
UploadItems(items, i, epub_lib, bd) ==
    IF i > Len(items) THEN [raised |-> FALSE, bd |-> bd]
    ELSE LET item == items[i]
             ch_text == NormalizeSpaces(item.text)
             parts == simple_chunk_words(ch_text, LoadMaxWords, LoadOverlap)
         IN  IF item.kind \in {"type_raises", "doc_raises"} \/ epub_lib = "no_item_document"
             THEN [raised |-> TRUE, bd |-> bd]
             ELSE IF item.kind # "doc" \/ ch_text = ""
             THEN UploadItems(items, i + 1, epub_lib, bd)
             ELSE UploadItems(items, i + 1, epub_lib,
                              bd \o DocChunks(None, item.name, parts))

\* upload_epub(file) of api/simple.py with books_data = bd; epub_lib is the
\* state of the EPUB library.  file is
\* [filename, copy_fails, readable, items]; the value is [bd, response,
\* leaked], leaked telling whether the temporary file stays on disk.
upload_epub(file, epub_lib, bd) ==
    LET loop == UploadItems(file.items, 1, epub_lib, <<>>)
        Failed(b, leaked) ==
            [bd |-> b, response |-> DetailResponse(500, "Processing error"),
             leaked |-> leaked]
    IN  IF ~EndsWith(file.filename, ".epub")
        THEN [bd |-> bd, response |-> DetailResponse(400, "Only EPUB files are supported"),
              leaked |-> FALSE]
        ELSE IF file.copy_fails THEN Failed(bd, TRUE)
        ELSE IF epub_lib = "missing" \/ ~file.readable THEN Failed(bd, FALSE)
        ELSE IF loop.raised \/ loop.bd = <<>> THEN Failed(loop.bd, FALSE)
        ELSE [bd |-> loop.bd, response |-> UploadResponse(Len(loop.bd)), leaked |-> FALSE]

(***************************************************************************)
(* SpecChunk: chunk_words applied to every bounded text.                   *)
(***************************************************************************)
\* The words the texts are built from: a section number, a plain word, a
\* section keyword, and the keyword ending a sentence.
WordVocab == {"7.", "tea", "Remedy", "Remedy."}

ChunkTexts ==
    {Join(ws) : ws \in UNION {[1..n -> WordVocab] : n \in 0..MaxTextWords}}

InitChunk ==
    /\ DedupeIdle
    /\ ExtractIdle
    /\ ServerIdle
    /\ SearchIdle
    /\ LoopIdle
    /\ cw_text \in ChunkTexts
    /\ cw_max \in 1..MaxMaxWords
    /\ cw_overlap \in 0..(cw_max - 1)
    /\ cw_out = <<>>
    /\ cw_i = 0
    /\ cw_pc = "input"

\* A call of api/index.py's chunk_words that returns.
ChunkWordsIndex ==
    /\ cw_pc = "input"
    /\ ~chunk_words_raises(cw_text, cw_max)
    /\ cw_out' = chunk_words(cw_text, cw_max, cw_overlap)
    /\ cw_pc' = IF TakesSectionPath(cw_text, cw_max) THEN "index_section"
                ELSE "index_words"
    /\ UNCHANGED <<cw_text, cw_max, cw_overlap, cw_i, sd_vars, ex_vars, srv_vars, ts_vars,
                   el_vars>>

\* A call of api/index.py's chunk_words that ends in ValueError.
ChunkWordsIndexRaises ==
    /\ cw_pc = "input"
    /\ chunk_words_raises(cw_text, cw_max)
    /\ cw_out' = <<>>
    /\ cw_pc' = "index_raised"
    /\ UNCHANGED <<cw_text, cw_max, cw_overlap, cw_i, sd_vars, ex_vars, srv_vars, ts_vars,
                   el_vars>>

\* A call of api/simple.py's chunk_words.
ChunkWordsSimple ==
    /\ cw_pc = "input"
    /\ cw_out' = simple_chunk_words(cw_text, cw_max, cw_overlap)
    /\ cw_pc' = "simple"
    /\ UNCHANGED <<cw_text, cw_max, cw_overlap, cw_i, sd_vars, ex_vars, srv_vars, ts_vars,
                   el_vars>>

NextChunk == ChunkWordsIndex \/ ChunkWordsIndexRaises \/ ChunkWordsSimple

SpecChunk == InitChunk /\ [][NextChunk]_vars

(***************************************************************************)
(* SpecWindow: the while loop of chunk_words (index.py 159-167, simple.py  *)
(* 50-58) run one iteration at a time.  cw_pc tells the variant whose loop *)
(* runs ("index_loop", "simple_loop") and, once the loop is over, the      *)
(* variant that returned ("index_words", "simple").                        *)
(***************************************************************************)
\* The amount added to i when overlap = max_words.
WindowStepNone(max_words, overlap) == 0

\* max_words - overlap, the amount added to i at the end of an iteration.
WindowStep(max_words, overlap) == max_words - overlap

\* index.py 134-160: the section path is not taken or gives no chunk, and
\* the loop starts with words = text.split(), chunks = [], i = 0.
WindowStartIndex ==
    /\ cw_pc = "input"
    /\ ~chunk_words_raises(cw_text, cw_max)
    /\ ~TakesSectionPath(cw_text, cw_max)
    /\ cw_out' = <<>> /\ cw_i' = 0
    /\ cw_pc' = "index_loop"
    /\ UNCHANGED <<cw_text, cw_max, cw_overlap, sd_vars, ex_vars, srv_vars, ts_vars, el_vars>>

\* simple.py 51-52: words = text.split(), out = [], i = 0.
WindowStartSimple ==
    /\ cw_pc = "input"
    /\ cw_out' = <<>> /\ cw_i' = 0
    /\ cw_pc' = "simple_loop"
    /\ UNCHANGED <<cw_text, cw_max, cw_overlap, sd_vars, ex_vars, srv_vars, ts_vars, el_vars>>

\* What the loop of the variant at cw_pc returns as.
Returned(at) == IF at = "index_loop" THEN "index_words" ELSE "simple"

\* One iteration of the loop: the window from i is appended; the loop is
\* left by break when the window reaches the last word, else i moves on.
WindowIterate ==
    /\ cw_pc \in {"index_loop", "simple_loop"}
    /\ \E words \in {Split(cw_text)} :
           /\ cw_i < Len(words)
           /\ \E end_idx \in {Min(cw_i + cw_max, Len(words))} :
                  /\ cw_out' = Append(cw_out, Join(Slice(words, cw_i, end_idx)))
                  /\ IF end_idx >= Len(words)
                     THEN cw_pc' = Returned(cw_pc) /\ cw_i' = cw_i
                     ELSE cw_pc' = cw_pc /\ cw_i' = cw_i + WindowStep(cw_max, cw_overlap)
    /\ UNCHANGED <<cw_text, cw_max, cw_overlap, sd_vars, ex_vars, srv_vars, ts_vars, el_vars>>

\* The loop condition i < len(words) is false: the list is returned.
WindowExit ==
    /\ cw_pc \in {"index_loop", "simple_loop"}
    /\ cw_i >= Len(Split(cw_text))
    /\ cw_pc' = Returned(cw_pc)
    /\ UNCHANGED <<cw_text, cw_max, cw_overlap, cw_out, cw_i, sd_vars, ex_vars, srv_vars,
                   ts_vars, el_vars>>

NextWindow == WindowStartIndex \/ WindowStartSimple \/ WindowIterate \/ WindowExit

\* The interpreter runs the loop it has entered: an iteration or exit that
\* can be taken is taken.
SpecWindow == InitChunk /\ [][NextWindow]_vars /\ WF_vars(WindowIterate \/ WindowExit)

(***************************************************************************)
(* Spec: a deployed handler serving requests.  At each step the process    *)
(* has either to be imported (api/index.py loads its books on import), is  *)
(* idle, or has just responded.                                            *)
(***************************************************************************)
MaxK == 2                \* the largest 'k' a request carries
MaxTmpFiles == 2         \* temporary files counted before the count saturates

\* Documents of an EPUB: one with numbered remedy sections, one of plain
\* prose, one too short for api/index.py to keep.
DocSections ==
    "Herbal notes. 1. Ginger remedy for nausea. Ingredients: ginger and honey. 2. Garlic remedy for colds. Crush garlic into honey."
DocPlain ==
    "Ginger tea is a natural remedy for nausea in children. Ingredients are ginger root and honey. Steep for ten minutes."
DocShort == "Contents"

Item(kind, name, text) == [kind |-> kind, name |-> name, text |-> text]

BookSections == <<Item("other", "cover.png", ""), Item("doc", "toc.xhtml", DocShort),
                  Item("doc", "ch1.xhtml", DocSections)>>
BookPartial == <<Item("empty", "blank.xhtml", ""), Item("doc", "ch2.xhtml", DocPlain),
                 Item("doc_raises", "bad.xhtml", ""), Item("type_raises", "odd", ""),
                 Item("doc", "ch1.xhtml", DocSections)>>
BookNothing == <<Item("doc", "toc.xhtml", DocShort), Item("doc_raises", "bad.xhtml", "")>>
\* A well-formed book whose only document holds no text.
BookBlank == <<Item("other", "cover.png", ""), Item("doc", "blank.xhtml", "  ")>>
\* A well-formed book of one chapter.
BookPlain == <<Item("doc", "ch2.xhtml", DocPlain)>>
Books == {BookSections, BookPartial, BookNothing}

\* What the working directory holds under one of the three file names.
FileStates ==
    {[exists |-> FALSE, readable |-> FALSE, items |-> <<>>],
     [exists |-> TRUE, readable |-> FALSE, items |-> <<>>]}
    \cup {[exists |-> TRUE, readable |-> TRUE, items |-> b] : b \in Books}

FileSystems == [1..Len(FileNames) -> FileStates]

\* The working directories a load after the import finds.
LaterFileSystems ==
    {[f \in 1..Len(FileNames) |-> [exists |-> FALSE, readable |-> FALSE, items |-> <<>>]],
     [f \in 1..Len(FileNames) |-> [exists |-> TRUE, readable |-> TRUE, items |-> BookSections]]}

Env(files) == [libs |-> libs = "ok", files |-> files]

\* The files a client uploads to api/simple.py.
UploadFiles ==
    {[filename |-> "notes.txt", copy_fails |-> FALSE, readable |-> TRUE, items |-> BookSections],
     [filename |-> "book.epub", copy_fails |-> TRUE, readable |-> TRUE, items |-> BookSections],
     [filename |-> "book.epub", copy_fails |-> FALSE, readable |-> FALSE, items |-> <<>>]}
    \cup {[filename |-> "book.epub", copy_fails |-> FALSE, readable |-> TRUE, items |-> b] :
             b \in Books \cup {<<>>, BookBlank, BookPlain}}

\* The bodies of POST /api/search.
Queries == {"", "Ginger ", "honey cough"}

SearchBodies ==
    {[NoSearchBody EXCEPT !.kind = kd] : kd \in {"no_length", "bad_json", "not_object"}}
    \cup {[kind |-> "object", q_is |-> "other", q |-> "", k_is |-> "absent", k |-> 0],
          [kind |-> "object", q_is |-> "str", q |-> "Ginger ", k_is |-> "other", k |-> 0]}
    \cup {[kind |-> "object", q_is |-> "absent", q |-> "", k_is |-> "int", k |-> k] :
             k \in {1}}
    \cup {[kind |-> "object", q_is |-> "str", q |-> q, k_is |-> "absent", k |-> 0] :
             q \in Queries}
    \cup {[kind |-> "object", q_is |-> "str", q |-> q, k_is |-> "int", k |-> k] :
             q \in Queries, k \in (-1)..MaxK}

\* What the language-model service does during one request: no key is
\* configured, or it answers every chunk with ingredients and no steps, or it
\* answers the odd chunks with ingredients and steps and fails on the others.
LlmModes == {"no_key", "ingredients", "odd_chunks"}

LlmIngredients ==
    [kind |-> "json_list", text |-> "",
     items |-> <<[kind |-> "dict", name |-> "Ginger", amount |-> "1 tsp", unit |-> "tsp"],
                 [kind |-> "dict", name |-> "Tobacco", amount |-> None, unit |-> None]>>]

LlmSteps ==
    [kind |-> "json_list", text |-> "",
     items |-> <<[kind |-> "step", step |-> "Drink the tea", dosage |-> "1 cup",
                  timing |-> "As needed"]>>]

LlmFailure == [kind |-> "error", text |-> "", items |-> <<>>]

Llm(mode, n) ==
    [key |-> mode # "no_key",
     ing |-> [i \in 1..n |-> IF mode = "ingredients" \/ (mode = "odd_chunks" /\ i % 2 = 1)
                             THEN LlmIngredients ELSE LlmFailure],
     fmt |-> [i \in 1..n |-> IF mode = "odd_chunks" /\ i % 2 = 1
                             THEN LlmSteps ELSE LlmFailure]]

Request(method, path) ==
    [NoRequest EXCEPT !.method = method, !.path = path]

Init ==
    /\ ChunkIdle /\ DedupeIdle /\ ExtractIdle /\ SearchIdle /\ LoopIdle
    /\ variant \in {"index", "simple"}
    /\ libs \in IF variant = "index" THEN {"ok", "missing"}
                ELSE {"ok", "missing", "no_item_document"}
    /\ books_data = <<>>
    /\ loaded_chunks = <<>>
    /\ pc = IF variant = "index" THEN "import" ELSE "idle"
    /\ request = NoRequest
    /\ response = NoResponseSent
    /\ tmp_files = 0

\* The call of load_epub_books() that opens do_GET, handle_search and the
\* module: books_data after it, and the local chunks of the load that ran.
Loaded(files) ==
    \E bd \in {load_epub_books(books_data, Env(files))} :
        /\ books_data' = bd
        /\ loaded_chunks' = IF books_data = <<>> THEN LoadedChunks(Env(files))
                            ELSE loaded_chunks

\* api/index.py is imported: its last statement loads the books.
ImportModule ==
    /\ variant = "index" /\ pc = "import"
    /\ \E files \in FileSystems : Loaded(files)
    /\ pc' = "idle"
    /\ UNCHANGED <<variant, libs, request, response, tmp_files, cw_vars, sd_vars, ex_vars, ts_vars, el_vars>>

\* do_GET of api/index.py on the path.
IndexGet(path) ==
    /\ variant = "index" /\ pc = "idle"
    /\ \E files \in LaterFileSystems : Loaded(files)
    /\ request' = Request("GET", path)
    /\ response' = IF path = "/" THEN HtmlPage
                   ELSE IF path = "/api/debug" THEN DebugResponse
                   ELSE IF path = "/api/health"
                   THEN HealthResponse({"status", "chunks_loaded", "books", "debug"},
                                       Len(books_data'))
                   ELSE NotFoundResponse
    /\ pc' = "responded"
    /\ UNCHANGED <<variant, libs, tmp_files, cw_vars, sd_vars, ex_vars, ts_vars, el_vars>>

DoGetRoot == IndexGet("/")

DoGetDebug == IndexGet("/api/debug")

DoGetHealth == IndexGet("/api/health")

DoGetUnknown == IndexGet("/api/unknown")

\* do_POST of api/index.py on /api/search: handle_search.
DoPostSearch ==
    /\ variant = "index" /\ pc = "idle"
    /\ \E files \in LaterFileSystems : Loaded(files)
    /\ \E body \in SearchBodies, mode \in LlmModes :
           \E llm \in {Llm(mode, Len(books_data'))} :
               \E sent \in {handle_search(books_data', body, llm)} :
                   /\ request' = [Request("POST", "/api/search")
                                     EXCEPT !.body = body, !.llm = mode]
                   /\ response' = sent
    /\ pc' = "responded"
    /\ UNCHANGED <<variant, libs, tmp_files, cw_vars, sd_vars, ex_vars, ts_vars, el_vars>>

\* do_POST of api/index.py on any other path: no load, 404.
DoPostUnknown ==
    /\ variant = "index" /\ pc = "idle"
    /\ request' = Request("POST", "/api/unknown")
    /\ response' = NotFoundResponse
    /\ pc' = "responded"
    /\ UNCHANGED <<variant, libs, books_data, loaded_chunks, tmp_files,
                   cw_vars, sd_vars, ex_vars, ts_vars, el_vars>>

\* GET / of api/simple.py.
SimpleHome ==
    /\ variant = "simple" /\ pc = "idle"
    /\ request' = Request("GET", "/")
    /\ response' = HtmlPage
    /\ pc' = "responded"
    /\ UNCHANGED <<variant, libs, books_data, loaded_chunks, tmp_files,
                   cw_vars, sd_vars, ex_vars, ts_vars, el_vars>>

\* POST /api/upload of api/simple.py.
SimpleUpload ==
    /\ variant = "simple" /\ pc = "idle"
    /\ \E file \in UploadFiles :
           \E result \in {upload_epub(file, libs, books_data)} :
               /\ request' = [Request("POST", "/api/upload") EXCEPT !.file = file]
               /\ books_data' = result.bd
               /\ response' = result.response
               /\ tmp_files' = IF result.leaked /\ tmp_files < MaxTmpFiles
                               THEN tmp_files + 1 ELSE tmp_files
    /\ pc' = "responded"
    /\ UNCHANGED <<variant, libs, loaded_chunks, cw_vars, sd_vars, ex_vars, ts_vars, el_vars>>

\* POST /api/search of api/simple.py.
SimpleSearch ==
    /\ variant = "simple" /\ pc = "idle"
    /\ \E body \in SearchBodies \ {b \in SearchBodies : b.kind = "no_length"} :
           \E sent \in {simple_search(books_data, body)} :
               /\ request' = [Request("POST", "/api/search") EXCEPT !.body = body]
               /\ response' = sent
    /\ pc' = "responded"
    /\ UNCHANGED <<variant, libs, books_data, loaded_chunks, tmp_files,
                   cw_vars, sd_vars, ex_vars, ts_vars, el_vars>>

\* GET /api/health of api/simple.py.
SimpleHealth ==
    /\ variant = "simple" /\ pc = "idle"
    /\ request' = Request("GET", "/api/health")
    /\ response' = HealthResponse({"status", "chunks_loaded"}, Len(books_data))
    /\ pc' = "responded"
    /\ UNCHANGED <<variant, libs, books_data, loaded_chunks, tmp_files,
                   cw_vars, sd_vars, ex_vars, ts_vars, el_vars>>

\* The response is with the client; the process waits for the next request.
NextRequest ==
    /\ pc = "responded"
    /\ pc' = "idle"
    /\ request' = NoRequest
    /\ response' = NoResponseSent
    /\ UNCHANGED <<variant, libs, books_data, loaded_chunks, tmp_files,
                   cw_vars, sd_vars, ex_vars, ts_vars, el_vars>>

Next ==
    \/ ImportModule
    \/ DoGetRoot \/ DoGetDebug \/ DoGetHealth \/ DoGetUnknown
    \/ DoPostSearch \/ DoPostUnknown
    \/ SimpleHome \/ SimpleUpload \/ SimpleSearch \/ SimpleHealth
    \/ NextRequest

Spec == Init /\ [][Next]_vars

(***************************************************************************)
(* SpecSearch: simple_text_search of either variant applied to bounded     *)
(* indexes, queries and limits.                                            *)
(***************************************************************************)
MaxResults == 3          \* the largest max_results argument tried

Chunk(book, chapter, pos, text) ==
    [book |-> book, chapter |-> chapter, pos |-> pos, text |-> text]

\* An index with two chunks of one text, a chunk of a priority book, a chunk
\* of the test book that lists conditions in one sentence, and a chunk about
\* nothing.
TieChunks == <<
    Chunk("notes.epub", "a.xhtml", 0, "Honey soothes a cough."),
    Chunk("test-book.epub", "c.xhtml", 0, "Cough, cold, flu, fever, cancer and disease"),
    Chunk("1.epub", "b.xhtml", 0, "Ginger tea is a remedy for cough. Ingredients: ginger, honey."),
    Chunk("notes.epub", "a.xhtml", 1, "Honey soothes a cough."),
    Chunk("notes.epub", "d.xhtml", 0, "Sleep well and walk daily.")>>

\* api/simple.py stores no book in a chunk.
WithoutBook(bd) == [c \in 1..Len(bd) |-> [bd[c] EXCEPT !.book = None]]

SearchIndexes == {<<>>, SampleChunks, TieChunks, SubSeq(TieChunks, 2, 4)}

SearchQueries == {"", " ", "honey", "Honey Cough", "cough", "ginger tea"}

SearchLimits == (-1)..MaxResults

InitSearch ==
    /\ ChunkIdle /\ DedupeIdle /\ ExtractIdle /\ LoopIdle
    /\ variant \in {"index", "simple"}
    /\ libs = "ok"
    /\ \E bd \in SearchIndexes :
           books_data = IF variant = "index" THEN bd ELSE WithoutBook(bd)
    /\ loaded_chunks = <<>>
    /\ pc = "off"
    /\ request = NoRequest
    /\ response = NoResponseSent
    /\ tmp_files = 0
    /\ ts_query = "" /\ ts_max = 0 /\ ts_out = <<>> /\ ts_pc = "input"

\* A call of api/index.py's simple_text_search that returns.
TextSearchIndex ==
    /\ variant = "index" /\ ts_pc = "input"
    /\ \E query \in SearchQueries, max_results \in SearchLimits :
           /\ ~simple_text_search_raises(books_data, query)
           /\ ts_query' = query
           /\ ts_max' = max_results
           /\ ts_out' = simple_text_search(books_data, query, max_results)
    /\ ts_pc' = "index"
    /\ UNCHANGED <<cw_vars, sd_vars, ex_vars, srv_vars, el_vars>>

\* A call of api/index.py's simple_text_search that ends in
\* ZeroDivisionError.
TextSearchIndexRaises ==
    /\ variant = "index" /\ ts_pc = "input"
    /\ \E query \in SearchQueries, max_results \in SearchLimits :
           /\ simple_text_search_raises(books_data, query)
           /\ ts_query' = query
           /\ ts_max' = max_results
    /\ ts_out' = <<>>
    /\ ts_pc' = "index_raised"
    /\ UNCHANGED <<cw_vars, sd_vars, ex_vars, srv_vars, el_vars>>

\* A call of api/simple.py's simple_text_search.
TextSearchSimple ==
    /\ variant = "simple" /\ ts_pc = "input"
    /\ \E query \in SearchQueries, max_results \in SearchLimits :
           /\ ts_query' = query
           /\ ts_max' = max_results
           /\ ts_out' = simple_simple_text_search(books_data, query, max_results)
    /\ ts_pc' = "simple"
    /\ UNCHANGED <<cw_vars, sd_vars, ex_vars, srv_vars, el_vars>>

NextSearch == TextSearchIndex \/ TextSearchIndexRaises \/ TextSearchSimple

SpecSearch == InitSearch /\ [][NextSearch]_vars

(***************************************************************************)
(* SpecLoop: api/simple.py serving several clients on one event loop.      *)
(* upload_epub and search are coroutines (async def): once the loop runs   *)
(* one, it runs it statement by statement and gives the loop to another    *)
(* task only at an await.  A task is                                       *)
(*   [handler, at, file, body, i, upload, response]                        *)
(* where at names the statement the handler is at: "queued" before the     *)
(* loop has called it, "done" once its response is set.                    *)
(***************************************************************************)
MaxClients == 2          \* clients with a request in flight
MaxUploads == 2          \* uploads admitted in one behaviour

Clients == 1..MaxClients

\* The statements of upload_epub and search after which the coroutine
\* awaits: the two bodies hold no await.
AwaitInUploadLoop == {"items"}

AwaitPoints == {}

LoopFiles == UploadFiles

LoopBodies ==
    {[kind |-> "object", q_is |-> "str", q |-> "Ginger ", k_is |-> "int", k |-> 1],
     [kind |-> "object", q_is |-> "str", q |-> "honey cough", k_is |-> "absent", k |-> 0]}

InitLoop ==
    /\ ChunkIdle /\ DedupeIdle /\ ExtractIdle /\ SearchIdle
    /\ variant = "simple"
    /\ libs \in {"ok", "missing", "no_item_document"}
    /\ books_data = <<>>
    /\ loaded_chunks = <<>>
    /\ pc = "off"
    /\ request = NoRequest
    /\ response = NoResponseSent
    /\ tmp_files = 0
    /\ el_task = [c \in Clients |-> NoTask]
    /\ el_running = 0
    /\ el_owner = <<>>
    /\ el_uploads = 0

\* The task of client c moves to statement at; the loop stays with it unless
\* the statement it leaves is an await.
Goes(c, at) ==
    /\ el_task' = [el_task EXCEPT ![c].at = at]
    /\ el_running' = IF el_task[c].at \in AwaitPoints THEN 0 ELSE c

\* The handler of client c ends with the response sent.
Ends(c, sent) ==
    /\ el_task' = [el_task EXCEPT ![c].at = "done", ![c].response = sent]
    /\ el_running' = 0

\* The handler of client c raised inside the inner try: the finally clause
\* runs before the response is made.
Raises(c, sent) ==
    /\ el_task' = [el_task EXCEPT ![c].at = "unlink", ![c].response = sent]
    /\ el_running' = IF el_task[c].at \in AwaitPoints THEN 0 ELSE c

At(c, handler, at) ==
    el_running = c /\ el_task[c].handler = handler /\ el_task[c].at = at

ProcessingError == DetailResponse(500, "Processing error")

\* A client posts a file to /api/upload.
PostUpload(c) ==
    /\ el_task[c].handler = "none"
    /\ el_uploads < MaxUploads
    /\ \E file \in LoopFiles :
           el_task' = [el_task EXCEPT ![c] = [NoTask EXCEPT !.handler = "upload",
                                                           !.at = "queued",
                                                           !.file = file,
                                                           !.upload = el_uploads + 1]]
    /\ el_uploads' = el_uploads + 1
    /\ UNCHANGED <<el_running, el_owner, srv_vars, cw_vars, sd_vars, ex_vars, ts_vars>>

\* A client posts a query to /api/search.
PostSearch(c) ==
    /\ el_task[c].handler = "none"
    /\ \E body \in LoopBodies :
           el_task' = [el_task EXCEPT ![c] = [NoTask EXCEPT !.handler = "search",
                                                           !.at = "queued",
                                                           !.body = body]]
    /\ UNCHANGED <<el_running, el_owner, el_uploads, srv_vars, cw_vars, sd_vars, ex_vars,
                   ts_vars>>

\* The free loop runs a task: it calls the handler of a queued request, or
\* resumes one that awaited.
RunTask(c) ==
    /\ el_running = 0
    /\ el_task[c].at \notin {"idle", "done"}
    /\ el_running' = c
    /\ el_task' = [el_task EXCEPT ![c].at =
                       IF el_task[c].at # "queued" THEN el_task[c].at
                       ELSE IF el_task[c].handler = "upload" THEN "check_name"
                       ELSE "check_data"]
    /\ UNCHANGED <<el_owner, el_uploads, srv_vars, cw_vars, sd_vars, ex_vars, ts_vars>>

\* upload_epub without the check of the file name.
UploadWithoutNameCheck(c) ==
    /\ At(c, "upload", "check_name")
    /\ Goes(c, "copy")
    /\ UNCHANGED <<el_owner, el_uploads, srv_vars, cw_vars, sd_vars, ex_vars, ts_vars>>

\* upload_epub, lines 321-322.
UploadCheckName(c) ==
    /\ At(c, "upload", "check_name")
    /\ IF EndsWith(el_task[c].file.filename, ".epub") THEN Goes(c, "copy")
       ELSE Ends(c, DetailResponse(400, "Only EPUB files are supported"))
    /\ UNCHANGED <<el_owner, el_uploads, srv_vars, cw_vars, sd_vars, ex_vars, ts_vars>>

\* upload_epub, lines 326-328: the temporary file is created, then the
\* uploaded bytes are copied into it.
UploadCopy(c) ==
    /\ At(c, "upload", "copy")
    /\ tmp_files' = tmp_files + 1
    /\ IF el_task[c].file.copy_fails THEN Ends(c, ProcessingError)
       ELSE Goes(c, "read")
    /\ UNCHANGED <<el_owner, el_uploads, variant, libs, books_data, loaded_chunks, pc,
                   request, response, cw_vars, sd_vars, ex_vars, ts_vars>>

\* upload_epub, lines 332-333.
UploadRead(c) ==
    /\ At(c, "upload", "read")
    /\ IF libs = "missing" \/ ~el_task[c].file.readable THEN Raises(c, ProcessingError)
       ELSE Goes(c, "reset")
    /\ UNCHANGED <<el_owner, el_uploads, srv_vars, cw_vars, sd_vars, ex_vars, ts_vars>>

\* upload_epub without the reset of line 334.
UploadWithoutReset(c) ==
    /\ At(c, "upload", "reset")
    /\ el_task' = [el_task EXCEPT ![c].at = "items", ![c].i = 1]
    /\ el_running' = c
    /\ UNCHANGED <<el_owner, el_uploads, srv_vars, cw_vars, sd_vars, ex_vars, ts_vars>>

\* upload_epub, line 334: books_data = [].
UploadReset(c) ==
    /\ At(c, "upload", "reset")
    /\ books_data' = <<>>
    /\ el_owner' = <<>>
    /\ el_task' = [el_task EXCEPT ![c].at = "items", ![c].i = 1]
    /\ el_running' = IF "reset" \in AwaitPoints THEN 0 ELSE c
    /\ UNCHANGED <<el_uploads, variant, libs, loaded_chunks, pc, request, response,
                   tmp_files, cw_vars, sd_vars, ex_vars, ts_vars>>

\* upload_epub, lines 336-348: one turn of the loop over the items.
UploadItem(c) ==
    /\ At(c, "upload", "items")
    /\ el_task[c].i <= Len(el_task[c].file.items)
    /\ \E item \in {el_task[c].file.items[el_task[c].i]} :
           IF item.kind \in {"type_raises", "doc_raises"} \/ libs = "no_item_document"
           THEN Raises(c, ProcessingError) /\ UNCHANGED <<books_data, el_owner>>
           ELSE /\ \E added \in {IF item.kind # "doc" THEN <<>>
                                  ELSE DocChunks(None, item.name,
                                           simple_chunk_words(NormalizeSpaces(item.text),
                                                              LoadMaxWords, LoadOverlap))} :
                       /\ books_data' = books_data \o added
                       /\ el_owner' = el_owner \o [p \in 1..Len(added) |-> el_task[c].upload]
                /\ el_task' = [el_task EXCEPT ![c].i = @ + 1]
                /\ el_running' = IF "items" \in AwaitPoints THEN 0 ELSE c
    /\ UNCHANGED <<el_uploads, variant, libs, loaded_chunks, pc, request, response,
                   tmp_files, cw_vars, sd_vars, ex_vars, ts_vars>>

\* upload_epub, lines 350-353: the loop is over.  The HTTPException(400)
\* raised here is caught at line 359 like any exception.
UploadReturn(c) ==
    /\ At(c, "upload", "items")
    /\ el_task[c].i > Len(el_task[c].file.items)
    /\ Raises(c, IF books_data = <<>> THEN ProcessingError
                 ELSE UploadResponse(Len(books_data)))
    /\ UNCHANGED <<el_owner, el_uploads, srv_vars, cw_vars, sd_vars, ex_vars, ts_vars>>

\* upload_epub, lines 355-357: os.unlink(tmp_path), then the response.
UploadUnlink(c) ==
    /\ At(c, "upload", "unlink")
    /\ tmp_files' = tmp_files - 1
    /\ Ends(c, el_task[c].response)
    /\ UNCHANGED <<el_owner, el_uploads, variant, libs, books_data, loaded_chunks, pc,
                   request, response, cw_vars, sd_vars, ex_vars, ts_vars>>

\* search, lines 365-366.
SearchCheckData(c) ==
    /\ At(c, "search", "check_data")
    /\ IF books_data = <<>>
       THEN Ends(c, DetailResponse(400, "No data available. Upload an EPUB file first."))
       ELSE Goes(c, "scan")
    /\ UNCHANGED <<el_owner, el_uploads, srv_vars, cw_vars, sd_vars, ex_vars, ts_vars>>

\* search, lines 368-410: simple_text_search scans books_data and the
\* remedies are made.
SearchScan(c) ==
    /\ At(c, "search", "scan")
    /\ \E sent \in {simple_search(books_data, el_task[c].body)} : Ends(c, sent)
    /\ UNCHANGED <<el_owner, el_uploads, srv_vars, cw_vars, sd_vars, ex_vars, ts_vars>>

\* The response of client c is sent; the client may post again.
Complete(c) ==
    /\ el_task[c].at = "done"
    /\ el_task' = [el_task EXCEPT ![c] = NoTask]
    /\ UNCHANGED <<el_running, el_owner, el_uploads, srv_vars, cw_vars, sd_vars, ex_vars,
                   ts_vars>>

NextLoop ==
    \E c \in Clients :
        \/ PostUpload(c) \/ PostSearch(c) \/ RunTask(c)
        \/ UploadCheckName(c) \/ UploadCopy(c) \/ UploadRead(c) \/ UploadReset(c)
        \/ UploadItem(c) \/ UploadReturn(c) \/ UploadUnlink(c)
        \/ SearchCheckData(c) \/ SearchScan(c)
        \/ Complete(c)

SpecLoop == InitLoop /\ [][NextLoop]_vars

(***************************************************************************)
(* Claims about chunk_words (SpecChunk).                                   *)
(***************************************************************************)
\* The words of chunk are words[a..b) of the whitespace-split text.
IsContiguousRun(chunk, text) ==
    LET words == Split(text)
    IN  \E a \in 0..Len(words) : \E b \in a..Len(words) :
            Split(chunk) = SubSeq(words, a + 1, b)

AllChunksContiguous == \A k \in 1..Len(cw_out) : IsContiguousRun(cw_out[k], cw_text)

\* C8 as stated: every chunk chunk_words returns, in both variants and on
\* the numbered-section path as well as the word-window path, is a
\* contiguous run of words of the input text.
C8_EveryChunkIsContiguousRun ==
    cw_pc \in {"index_section", "index_words", "simple"} => AllChunksContiguous

\* C8 amended: every chunk of the word-window path (the only path of
\* api/simple.py, and the path api/index.py takes when no numbered-section
\* chunk is produced) is a contiguous run of words of the input text.
C8_WordWindowChunkIsContiguousRun ==
    cw_pc \in {"index_words", "simple"} => AllChunksContiguous

\* C8 witness: api/index.py windowed a text into several overlapping chunks.
C8_Witness ==
    /\ cw_pc = "index_words"
    /\ Len(cw_out) >= 3
    /\ cw_overlap > 0

(***************************************************************************)
(* Claims about smart_dedupe_ingredients (SpecDedupe).                     *)
(***************************************************************************)
\* The canonical name of a name: the main name of the common_herbs entry
\* that lists its lower-cased, stripped form, or that form itself.
CanonicalName(name) ==
    LET n == Strip(Lower(name))
    IN  IF \E g \in 1..Len(common_herbs) :
               \E k \in 1..Len(common_herbs[g][2]) : common_herbs[g][2][k] = n
        THEN common_herbs[CHOOSE g \in 1..Len(common_herbs) :
                 \E k \in 1..Len(common_herbs[g][2]) : common_herbs[g][2][k] = n][1]
        ELSE n

\* C9: the output of smart_dedupe_ingredients holds at most one ingredient
\* per canonical name, and no ingredient whose name is in the skip list.
C9_OneIngredientPerCanonicalName ==
    sd_pc = "done" =>
        /\ \A i, j \in 1..Len(sd_out) :
               i # j => CanonicalName(sd_out[i].name) # CanonicalName(sd_out[j].name)
        /\ \A i \in 1..Len(sd_out) : Strip(Lower(sd_out[i].name)) \notin SkipNames

\* C9 witness: two spellings of one herb and a unit word went in, one
\* ingredient came out.
C9_Witness ==
    /\ sd_pc = "done"
    /\ Len(sd_in) = 3
    /\ Len(sd_out) = 1
    /\ \E i \in 1..3 : Strip(Lower(sd_in[i].name)) \in SkipNames
    /\ \E i, j \in 1..3 :
           /\ Strip(Lower(sd_in[i].name)) # Strip(Lower(sd_in[j].name))
           /\ CanonicalName(sd_in[i].name) = CanonicalName(sd_in[j].name)

(***************************************************************************)
(* Claims about extract_ingredients_and_steps (SpecExtract).               *)
(***************************************************************************)
\* The language-model path failed or was unavailable: no key, or both calls
\* raised or answered something that is not a JSON list.
LlmPathFailed ==
    \/ ex_pc = "no_key"
    \/ /\ ex_pc = "called"
       /\ ex_ing_resp \in FailedResponses
       /\ ex_fmt_resp \in FailedResponses

\* C7: whenever the language-model path fails or is unavailable, the
\* result of extract_ingredients_and_steps is the heuristic one: its
\* ingredients are the deduplicated ingredients the line parser found and
\* its instructions are the steps the line parser found.
C7_HeuristicResultWhenLlmFails ==
    LlmPathFailed =>
        /\ ex_out.ingredients =
               smart_dedupe_ingredients(BasicParse(ex_snippet).ingredients)
        /\ ex_out.instructions =
               Slice(BasicParse(ex_snippet).steps, 0, InstructionLimit)

\* C7, the failing input: without a key, a snippet with a method heading and
\* one bulleted step comes back with the general instructions and without
\* the step.
C7_Witness ==
    /\ ex_pc = "no_key"
    /\ ex_snippet = "Method:\n- Boil water"
    /\ BasicParse(ex_snippet).steps = <<"Boil water">>
    /\ ex_out.instructions = practical_instructions

(***************************************************************************)
(* Claims about the deployed handler (Spec).                               *)
(***************************************************************************)
Answered(method, path) ==
    pc = "responded" /\ request.method = method /\ request.path = path

IsRemediesObject(sent) == sent.type = "json" /\ sent.keys = {"ok", "remedies"} /\ sent.ok

IsErrorObject(sent) == sent.type = "json" /\ sent.keys = {"ok", "error"} /\ ~sent.ok

\* C1: in both variants every response to POST /api/search is either
\* {ok: true, remedies} or {ok: false, error}.
C1_SearchAnswersOneOfTwoShapes ==
    Answered("POST", "/api/search")
        => IsRemediesObject(response) \/ IsErrorObject(response)

\* C1, the failing input: api/simple.py is asked to search before any upload
\* and answers 400 with the single field detail.
C1_Witness ==
    /\ variant = "simple" /\ Answered("POST", "/api/search")
    /\ ValidSearchQuery(request.body)
    /\ books_data = <<>>
    /\ response.status = 400 /\ response.keys = {"detail"}

\* C2: every failure of search and upload, in both variants, is the body
\* {ok: false, error} with status 400 or 500.
C2_FailuresAreErrorObjects ==
    /\ (Answered("POST", "/api/search") \/ Answered("POST", "/api/upload"))
    /\ response.status # 200
    => IsErrorObject(response) /\ response.status \in {400, 500}

\* C2, the failing input: api/simple.py is sent a file that is no .epub and
\* answers 400 with the single field detail.
C2_Witness ==
    /\ variant = "simple" /\ Answered("POST", "/api/upload")
    /\ ~EndsWith(request.file.filename, ".epub")
    /\ response.status = 400 /\ response.keys = {"detail"}

UploadSucceeded == variant = "simple" /\ Answered("POST", "/api/upload") /\ response.status = 200

\* C3 as stated: a successful POST /api/upload returns an object with the
\* three fields ok, chunks and remedies.
C3_UploadReturnsOkChunksRemedies ==
    UploadSucceeded => response.keys = {"ok", "chunks", "remedies"}

\* C3 amended: a successful POST /api/upload returns an object with exactly
\* the two fields ok (true) and chunks (the number of chunks now stored).
C3_UploadReturnsOkAndChunks ==
    UploadSucceeded
        => /\ response.keys = {"ok", "chunks"}
           /\ response.ok
           /\ response.chunks = Len(books_data)

\* C3 witness: an upload succeeded and stored several chunks.
C3_Witness == UploadSucceeded /\ response.chunks >= 2

\* C4: GET /api/health reports chunks_loaded equal to the length of
\* books_data, which is what a search in that state scans; in api/index.py
\* it is at least 1.
C4_HealthReportsChunkCount ==
    Answered("GET", "/api/health")
        => /\ "chunks_loaded" \in response.keys
           /\ response.chunks_loaded = Len(books_data)
           /\ variant = "index" => response.chunks_loaded >= 1

\* C4 witness: api/simple.py reports the chunks of an upload, api/index.py
\* being the other case of the same formula.
C4_Witness ==
    /\ Answered("GET", "/api/health")
    /\ response.chunks_loaded >= 2
    /\ books_data # SampleChunks

IsSampleChunk(chunk) == \E i \in DOMAIN SampleChunks : SampleChunks[i] = chunk

\* C5: after load_epub_books has returned in api/index.py, books_data is not
\* empty and is exactly the chunks parsed from the EPUB files or exactly the
\* ten samples, the samples if and only if no chunk was parsed, never a mix.
C5_LoadGivesEpubChunksOrSamples ==
    (variant = "index" /\ pc # "import")
        => /\ books_data # <<>>
           /\ loaded_chunks # <<>> => books_data = loaded_chunks
           /\ loaded_chunks = <<>> => books_data = SampleChunks
           /\ books_data = SampleChunks <=> loaded_chunks = <<>>
           /\ (\A i \in DOMAIN books_data : IsSampleChunk(books_data[i]))
              \/ (\A i \in DOMAIN books_data : ~IsSampleChunk(books_data[i]))
           /\ Len(SampleChunks) = 10

\* C5 witness: the load parsed chunks from two files although items of one of
\* them failed.
C5_Witness ==
    /\ variant = "index" /\ pc = "idle"
    /\ loaded_chunks # <<>>
    /\ \E i, j \in DOMAIN books_data :
           /\ books_data[i].book = "1.epub" /\ books_data[i].chapter = "ch2.xhtml"
           /\ books_data[j].book = "2.epub"

\* C6: in api/index.py no request changes books_data after the first load;
\* load_epub_books leaves a non-empty books_data as it is.
C6_BooksDataFrozenAfterFirstLoad ==
    [][(variant = "index" /\ pc # "import") => books_data' = books_data]_vars

\* C6 witness: a search was answered from chunks parsed at the import.
C6_Witness ==
    /\ variant = "index" /\ Answered("POST", "/api/search")
    /\ response.status = 200
    /\ books_data = loaded_chunks /\ books_data # <<>>

\* C10: in one successful search response no two remedies share an id, and in
\* api/index.py no two share a normalised title key.
C10_RemediesDifferInIdAndTitleKey ==
    (Answered("POST", "/api/search") /\ response.ok)
        => \A i, j \in DOMAIN response.remedies :
               i # j => /\ response.remedies[i].id # response.remedies[j].id
                        /\ variant = "index"
                           => TitleKey(response.remedies[i].title)
                              # TitleKey(response.remedies[j].title)

\* C10 witness: api/index.py answered with several remedies from chunks of
\* which two have the same text.
C10_Witness ==
    /\ variant = "index" /\ Answered("POST", "/api/search") /\ response.ok
    /\ Len(response.remedies) >= 2
    /\ \E i, j \in DOMAIN books_data :
           i # j /\ books_data[i].text = books_data[j].text

SearchSucceeded == Answered("POST", "/api/search") /\ response.ok

\* The affiliate search URL the variant in service builds from a name.
VariantSearchUrl(name) ==
    IF variant = "index" THEN affiliate_search_url(name)
    ELSE simple_affiliate_search_url(name)

IsFallbackRemedy(remedy) == remedy.title = BasicTitle(BodyQuery(request.body))

\* C11: every ingredient of every remedy of a successful search response
\* carries a link field holding the affiliate search URL built from the
\* ingredient's name, in strict and in fallback remedies alike.
C11_EveryIngredientCarriesItsLink ==
    SearchSucceeded
        => \A r \in DOMAIN response.remedies :
               \A n \in DOMAIN response.remedies[r].ingredients :
                   LET ingredient == response.remedies[r].ingredients[n]
                   IN  /\ "link" \in DOMAIN ingredient
                       /\ ingredient.link = VariantSearchUrl(ingredient.name)

\* C11, the failing input: api/index.py answers with a fallback remedy whose
\* ingredients came from extract_ingredients_and_steps and have no link field.
C11_Witness ==
    /\ variant = "index" /\ SearchSucceeded
    /\ request.body.q = "Ginger " /\ request.llm = "ingredients"
    /\ \E r \in DOMAIN response.remedies :
           /\ IsFallbackRemedy(response.remedies[r])
           /\ response.remedies[r].ingredients # <<>>
           /\ \A n \in DOMAIN response.remedies[r].ingredients :
                  "link" \notin DOMAIN response.remedies[r].ingredients[n]

\* A fallback remedy whose ingredients came from the common-herb scan: the
\* link is there but built from the lower-case word, not from the name.
C11_ScanLinkNotFromName ==
    /\ variant = "index" /\ SearchSucceeded
    /\ \E r \in DOMAIN response.remedies :
           \E n \in DOMAIN response.remedies[r].ingredients :
               LET ingredient == response.remedies[r].ingredients[n]
               IN  /\ "link" \in DOMAIN ingredient
                   /\ ingredient.link # affiliate_search_url(ingredient.name)

NoDataResponse == DetailResponse(400, "No data available. Upload an EPUB file first.")

\* C14 as stated: a search that finds books_data empty is rejected with the
\* error of its variant, and in api/simple.py that is how every search
\* issued before the first upload ends.
C14_EverySearchOfEmptyIndexIsRejected ==
    (Answered("POST", "/api/search") /\ books_data = <<>>)
        => response = IF variant = "index" THEN ErrorResponse("No remedy data loaded.")
                      ELSE NoDataResponse

\* C14 amended: a search is answered with remedies only from a books_data that
\* is not empty; in api/simple.py every search whose body is a SearchQuery
\* and that finds books_data empty is answered 400 'No data available.
\* Upload an EPUB file first.' (a body that is no SearchQuery is answered 422
\* before the handler is called); in api/index.py the check never finds
\* books_data empty, and would send 'No remedy data loaded.' to every JSON
\* object if it did.
C14_HandledSearchOfEmptyIndexIsRejected ==
    /\ (Answered("POST", "/api/search") /\ response.status = 200) => books_data # <<>>
    /\ (variant = "simple" /\ Answered("POST", "/api/search") /\ books_data = <<>>)
           => response = IF ValidSearchQuery(request.body) THEN NoDataResponse
                         ELSE DetailResponse(422, "validation error")
    /\ (variant = "index" /\ Answered("POST", "/api/search"))
           => /\ books_data # <<>>
              /\ request.body.kind = "object"
                     => handle_search(<<>>, request.body, Llm(request.llm, 0))
                            = ErrorResponse("No remedy data loaded.")

\* C14 witness: api/simple.py rejects a well-formed search because nothing
\* has been stored, an upload having failed before.
C14_Witness ==
    /\ variant = "simple" /\ Answered("POST", "/api/search")
    /\ request.body.q = "honey cough" /\ request.body.k_is = "int"
    /\ books_data = <<>> /\ tmp_files > 0
    /\ response = NoDataResponse

\* C15: a successful search response to a request with integer k >= 0 (5
\* when the body has no k) holds at most k remedies, in both variants.
C15_AtMostKRemedies ==
    (SearchSucceeded /\ request.body.k_is # "other")
        => LET k == IF request.body.k_is = "absent" THEN DefaultK ELSE request.body.k
           IN  k >= 0 => Len(response.remedies) <= k

\* C15 witness: api/index.py answers k = 1 with one remedy where the same
\* search with k = 2 has two.
C15_Witness ==
    /\ variant = "index" /\ SearchSucceeded
    /\ request.body.k_is = "int" /\ request.body.k = 1
    /\ Len(response.remedies) = 1
    /\ Len(handle_search(books_data, [request.body EXCEPT !.k = 2],
                         Llm(request.llm, Len(books_data))).remedies) = 2

UploadAnswered == variant = "simple" /\ Answered("POST", "/api/upload")

\* The file is a well-formed EPUB, stored and read without error, none of
\* whose documents holds text.
IsTextlessEpub(file) ==
    /\ EndsWith(file.filename, ".epub") /\ ~file.copy_fails /\ file.readable
    /\ \A j \in DOMAIN file.items :
           /\ file.items[j].kind \in {"doc", "other"}
           /\ file.items[j].kind = "doc" => NormalizeSpaces(file.items[j].text) = ""

\* C16: api/simple.py answers the upload of a well-formed EPUB whose
\* documents yield no text with status 400 and the detail 'No parsable text
\* found in EPUB'.
C16_TextlessEpubAnswered400 ==
    (UploadAnswered /\ libs = "ok" /\ IsTextlessEpub(request.file))
        => response = DetailResponse(400, "No parsable text found in EPUB")

\* C16, the failing input: the upload of a book whose one document is blank
\* is answered 500.
C16_Witness ==
    /\ UploadAnswered /\ libs = "ok" /\ IsTextlessEpub(request.file)
    /\ request.file.items = BookBlank
    /\ response.status = 500

(***************************************************************************)
(* Claims about simple_text_search (SpecSearch).                           *)
(***************************************************************************)
\* The score the variant in service gives chunk c of books_data for
\* ts_query.
SearchScore(c) ==
    IF variant = "index" THEN ChunkScore(Strip(Lower(ts_query)), books_data[c])
    ELSE SimpleChunkScore(ts_query, books_data[c])

\* out is the chunks of books_data at the positions at, one position each.
ReturnedFrom(at) ==
    /\ Len(at) = Len(ts_out)
    /\ \A r \in 1..Len(at) : books_data[at[r]] = ts_out[r]
    /\ \A r, q \in 1..Len(at) : r # q => at[r] # at[q]

\* C12: simple_text_search of both variants returns, for max_results >= 0,
\* at most max_results chunks, each with a score above 0, in non-increasing
\* score order with ties in books_data order, and leaves out no chunk that
\* scores strictly higher than a returned one.
C12_SearchReturnsRankedPrefix ==
    (ts_pc \in {"index", "simple"} /\ ts_max >= 0)
        => \E at \in {[r \in 1..Len(ts_out) |->
                          CHOOSE c \in DOMAIN books_data : books_data[c] = ts_out[r]]} :
               /\ Len(ts_out) <= ts_max
               /\ ReturnedFrom(at)
               /\ \A r \in 1..Len(at) : SearchScore(at[r]) > 0
               /\ \A r \in 1..(Len(at) - 1) :
                      \/ SearchScore(at[r]) > SearchScore(at[r + 1])
                      \/ SearchScore(at[r]) = SearchScore(at[r + 1]) /\ at[r] < at[r + 1]
               /\ \A c \in DOMAIN books_data :
                      (\A r \in 1..Len(at) : at[r] # c)
                          => \A r \in 1..Len(at) : SearchScore(c) <= SearchScore(at[r])

\* C12 witness: a search returned fewer chunks than score above 0, two of the
\* returned chunks tie, and books_data is not in score order.
C12_Witness ==
    /\ ts_pc \in {"index", "simple"} /\ ts_max >= 2
    /\ Len(ts_out) = ts_max
    /\ Cardinality({c \in DOMAIN books_data : SearchScore(c) > 0}) > ts_max
    /\ \E c, d \in DOMAIN books_data : c < d /\ SearchScore(c) < SearchScore(d)
    /\ \E r \in 1..(Len(ts_out) - 1) : ts_out[r].text = ts_out[r + 1].text

(***************************************************************************)
(* Claims about the event loop of api/simple.py (SpecLoop).                *)
(***************************************************************************)
\* The upload of a task completes successfully if it is left to run.
UploadWillSucceed(task) == upload_epub(task.file, libs, <<>>).response.status = 200

\* The task is an upload that will complete successfully, is past its reset
\* and has an append still to make.
BetweenResetAndLastAppend(task) ==
    /\ task.handler = "upload" /\ task.at = "items"
    /\ UploadWillSucceed(task)
    /\ \E j \in task.i..Len(task.file.items) :
           /\ task.file.items[j].kind = "doc"
           /\ NormalizeSpaces(task.file.items[j].text) # ""

\* A search is at the statement that scans books_data.
Scanning(c) == el_task[c].handler = "search" /\ el_task[c].at = "scan"

\* C13: with upload and search requests of several clients interleaved on
\* the one event loop, no search scans books_data while an upload that
\* completes successfully is between its reset and its last append, and the
\* index a search scans never holds chunks of two uploads.
C13_SearchNeverScansHalfBuiltIndex ==
    \A c \in DOMAIN el_task :
        Scanning(c)
            => /\ \A d \in DOMAIN el_task : ~BetweenResetAndLastAppend(el_task[d])
               /\ \A p, q \in DOMAIN el_owner : el_owner[p] = el_owner[q]

\* C13 witness: a search scans the chunks of a completed upload while another
\* client has an upload waiting for the loop.
C13_Witness ==
    \E c, d \in DOMAIN el_task :
        /\ Scanning(c) /\ el_running = c
        /\ el_task[d].handler = "upload" /\ el_task[d].at = "queued"
        /\ Len(el_owner) >= 2
        /\ \A p \in DOMAIN el_owner : el_owner[p] = 1

\* The task is an upload of a file whose name does not end in ".epub".
IsMisnamedUpload(task) ==
    task.handler = "upload" /\ ~EndsWith(task.file.filename, ".epub")

OnlyEpubResponse == DetailResponse(400, "Only EPUB files are supported")

\* C17: api/simple.py rejects an upload whose filename does not end in
\* ".epub" with 400 'Only EPUB files are supported' before any processing:
\* its handler runs no statement past the check of the name, and while it
\* runs no temporary file is created and books_data stays as it was.
C17_MisnamedUploadRejectedUntouched ==
    /\ [](\A c \in DOMAIN el_task :
              IsMisnamedUpload(el_task[c])
                  => /\ el_task[c].at \in {"queued", "check_name", "done"}
                     /\ el_task[c].at = "done" => el_task[c].response = OnlyEpubResponse)
    /\ [][\A c \in DOMAIN el_task :
              (IsMisnamedUpload(el_task[c]) /\ el_running = c)
                  => books_data' = books_data /\ tmp_files' = tmp_files]_vars

\* C17 witness: a misnamed upload was rejected while books_data held the
\* chunks of an earlier upload and no temporary file was on disk.
C17_Witness ==
    \E c \in DOMAIN el_task :
        /\ IsMisnamedUpload(el_task[c]) /\ el_task[c].at = "done"
        /\ el_task[c].response = OnlyEpubResponse
        /\ Len(books_data) >= 2 /\ tmp_files = 0

\* The documents of a file that hold text, in the order of the book.
TextDocuments(file) ==
    SelectSeq(file.items, LAMBDA item : item.kind = "doc" /\ NormalizeSpaces(item.text) # "")

\* The word windows of document d.
DocumentParts(docs, d) ==
    simple_chunk_words(NormalizeSpaces(docs[d].text), LoadMaxWords, LoadOverlap)

\* The number of chunks of the documents before document d.
RECURSIVE ChunksBefore(_, _)
ChunksBefore(docs, d) ==
    IF d <= 1 THEN 0 ELSE ChunksBefore(docs, d - 1) + Len(DocumentParts(docs, d - 1))

\* bd is exactly the chunks of the file: document after document, and within
\* a document the windows in order with pos 0, 1, ...
IsIndexOfFile(bd, file) ==
    \E docs \in {TextDocuments(file)} :
        /\ Len(bd) = ChunksBefore(docs, Len(docs) + 1)
        /\ \A d \in 1..Len(docs) :
               \A p \in 1..Len(DocumentParts(docs, d)) :
                   bd[ChunksBefore(docs, d) + p] =
                       [book |-> None, chapter |-> docs[d].name, pos |-> p - 1,
                        text |-> DocumentParts(docs, d)[p]]

\* The step with which the upload of client c returns successfully.
UploadReturnsOk(c) ==
    /\ el_task[c].handler = "upload" /\ el_task[c].at = "unlink"
    /\ el_task'[c].at = "done" /\ el_task'[c].response.status = 200

\* C18: when an upload of api/simple.py returns successfully, books_data is
\* exactly the chunks of the uploaded book, in document order with pos
\* numbered from 0 within each document, no chunk of an earlier upload
\* remains, and the chunks value returned is len(books_data).
C18_UploadReplacesIndex ==
    [][\A c \in DOMAIN el_task :
           UploadReturnsOk(c)
               => /\ IsIndexOfFile(books_data', el_task[c].file)
                  /\ \A p \in DOMAIN el_owner' : el_owner'[p] = el_task[c].upload
                  /\ el_task'[c].response.chunks = Len(books_data')
                  /\ el_task'[c].response.keys = {"ok", "chunks"}]_vars

\* C18 witness: the second upload has returned successfully with chunks of
\* two documents, after a first upload of another book had succeeded.
C18_Witness ==
    \E c, d \in DOMAIN el_task :
        /\ el_task[c].handler = "upload" /\ el_task[c].at = "done"
        /\ el_task[c].response.status = 200 /\ el_task[c].upload = 2
        /\ el_task[d].handler = "upload" /\ el_task[d].at = "done"
        /\ el_task[d].response.status = 200 /\ el_task[d].upload = 1
        /\ el_task[d].file # el_task[c].file
        /\ el_running = 0
        /\ IsIndexOfFile(books_data, el_task[c].file)
        /\ \E p, q \in DOMAIN books_data : books_data[p].chapter # books_data[q].chapter

\* The handler of the upload of client c takes a step.
UploadSteps(c) ==
    /\ el_task[c].handler = "upload" /\ el_task[c].at # "done"
    /\ el_task'[c] # el_task[c]

\* C19: an upload of api/simple.py that ends in an error response leaves
\* books_data as it was before the request, that is, no step of such an
\* upload changes books_data.
C19_FailedUploadLeavesIndex ==
    [][\A c \in DOMAIN el_task :
           (UploadSteps(c) /\ ~UploadWillSucceed(el_task[c]))
               => books_data' = books_data]_vars

\* C19, the failing input: the first upload succeeded and reported its
\* chunks; the second upload, of a book whose only document is blank, was
\* answered 500, and the index is empty.
C19_Witness ==
    \E c, d \in DOMAIN el_task :
        /\ el_task[d].handler = "upload" /\ el_task[d].at = "done" /\ el_task[d].upload = 1
        /\ el_task[d].response.status = 200 /\ el_task[d].response.chunks > 0
        /\ el_task[c].handler = "upload" /\ el_task[c].at = "done" /\ el_task[c].upload = 2
        /\ el_task[c].file.items = BookBlank
        /\ el_task[c].response.status = 500
        /\ books_data = <<>>

\* C19, a second failing input: the failed upload of a book one of whose
\* documents cannot be read has left the chunks of the documents before it
\* in the place of the index of the first upload.
C19_PartialIndexStays ==
    \E c, d \in DOMAIN el_task :
        /\ el_task[d].handler = "upload" /\ el_task[d].at = "done" /\ el_task[d].upload = 1
        /\ el_task[d].response.status = 200
        /\ el_task[c].handler = "upload" /\ el_task[c].at = "done" /\ el_task[c].upload = 2
        /\ el_task[c].file.items = BookPartial
        /\ el_task[c].response.status = 500
        /\ books_data # <<>>
        /\ \A p \in DOMAIN el_owner : el_owner[p] = 2

\* The upload of client c holds a temporary file: it is past the copy and
\* before the end of its finally clause.
HoldsTemporaryFile(c) ==
    el_task[c].handler = "upload" /\ el_task[c].at \in {"read", "reset", "items", "unlink"}

\* C20: every temporary file created for an upload of api/simple.py is
\* deleted before the request completes, on the success path and on every
\* failure path: when no upload is between its copy and the end of its
\* finally clause, no temporary file is left.
C20_TemporaryFilesDeleted ==
    (\A c \in DOMAIN el_task : ~HoldsTemporaryFile(c)) => tmp_files = 0

\* C20, the failing input: an upload whose copy into the temporary file
\* failed has been answered 500 and its temporary file is still there.
C20_Witness ==
    \E c \in DOMAIN el_task :
        /\ el_task[c].handler = "upload" /\ el_task[c].at = "done"
        /\ EndsWith(el_task[c].file.filename, ".epub") /\ el_task[c].file.copy_fails
        /\ el_task[c].response.status = 500
        /\ \A d \in DOMAIN el_task : ~HoldsTemporaryFile(d)
        /\ el_uploads = 1 /\ tmp_files = 1

(***************************************************************************)
(* Claims about the while loop of chunk_words (SpecWindow).                *)
(***************************************************************************)
WindowLooping == cw_pc \in {"index_loop", "simple_loop"}
WindowReturned == cw_pc \in {"index_words", "simple"}

\* C21: with 0 <= overlap < max_words the word-window loop of chunk_words,
\* once entered, ends for every text, in both variants; it returns the
\* empty list for a text with no words; and every iteration after which
\* the loop goes on has strictly increased the start index i.
C21_WindowLoopTerminates ==
    /\ WindowLooping ~> WindowReturned
    /\ []((WindowReturned /\ Split(cw_text) = <<>>) => cw_out = <<>>)
    /\ [][(WindowLooping /\ WindowLooping') => cw_i' > cw_i]_vars

\* C21 witness: the loop of api/index.py has returned after moving i at
\* least twice with a positive overlap.
C21_Witness ==
    /\ cw_pc = "index_words" /\ cw_overlap > 0
    /\ Len(cw_out) >= 3 /\ cw_i >= 2 * WindowStep(cw_max, cw_overlap)

\* C21 witness for the text without words: both loops returned at once.
C21_WitnessNoWords ==
    /\ WindowReturned /\ cw_text = "" /\ cw_out = <<>> /\ cw_i = 0

(***************************************************************************)
(* Claims about the chunks chunk_words returns (SpecChunk).                *)
(***************************************************************************)
\* chunk_words returned from its word-window path.
OnWindowPath == cw_pc \in {"index_words", "simple"}

\* The 0-based index of the first word of chunk j (j = 1, 2, ...) and the
\* index one past its last word, as the claim gives them.
WindowFrom(j) == (j - 1) * (cw_max - cw_overlap)
WindowTo(j) == Min(WindowFrom(j) + cw_max, Len(Split(cw_text)))

\* C22: on the word-window path, with step = max_words - overlap, chunk j
\* (counted from 0) is exactly words[j*step .. min(j*step + max_words, n));
\* consecutive chunks share exactly overlap words, the last chunk ends at
\* the last word of the text, and every chunk after the first holds a word
\* its predecessor does not.
C22_ChunksAreTheWindows ==
    OnWindowPath =>
        \E words \in {Split(cw_text)} :
            /\ \A j \in 1..Len(cw_out) :
                   /\ WindowFrom(j) < Len(words)
                   /\ Split(cw_out[j]) = SubSeq(words, WindowFrom(j) + 1, WindowTo(j))
            /\ \A j \in 1..(Len(cw_out) - 1) :
                   /\ WindowTo(j) - WindowFrom(j + 1) = cw_overlap
                   /\ SubSeq(Split(cw_out[j]), cw_max - cw_overlap + 1, cw_max)
                          = SubSeq(Split(cw_out[j + 1]), 1, cw_overlap)
                   /\ WindowTo(j + 1) > WindowTo(j)
            /\ words # <<>> => cw_out # <<>> /\ WindowTo(Len(cw_out)) = Len(words)
            /\ words = <<>> => cw_out = <<>>

\* C22 witness: api/simple.py windowed a text into chunks that overlap, the
\* last one shorter than max_words.
C22_Witness ==
    /\ cw_pc = "simple" /\ cw_overlap > 0
    /\ Len(cw_out) >= 2
    /\ Len(Split(cw_out[Len(cw_out)])) < cw_max

\* The number of words of a chunk.
WordCount(chunk) == Len(Split(chunk))

\* C23: no chunk chunk_words returns holds more than max_words words, on the
\* word-window path of both variants and on the numbered-section path of
\* api/index.py.
C23_NoChunkOverMaxWords ==
    cw_pc \in {"index_section", "index_words", "simple"}
        => \A k \in 1..Len(cw_out) : WordCount(cw_out[k]) <= cw_max

\* C23, the failing input: api/index.py split an over-long section whose
\* title has more words than the code keeps free for it, with a positive
\* piece length, and a piece with its title is longer than max_words.
C23_Witness ==
    /\ cw_pc = "index_section"
    /\ cw_max > SectionTitleReserve
    /\ \E k \in 1..Len(cw_out) :
           /\ WordCount(cw_out[k]) > cw_max
           /\ WordCount(cw_out[k]) <= 2 * cw_max - SectionTitleReserve

\* C23 on the word-window path alone.
C23_NoWindowOverMaxWords ==
    OnWindowPath => \A k \in 1..Len(cw_out) : WordCount(cw_out[k]) <= cw_max

\* C23 for sections whose title fits: api/index.py split an over-long
\* section into pieces that, title included, stay within max_words.
C23_SectionPiecesWithinMax ==
    /\ cw_pc = "index_section"
    /\ cw_max > SectionTitleReserve
    /\ Len(Split(cw_text)) > cw_max
    /\ Len(cw_out) >= 2
    /\ \A k \in 1..Len(cw_out) : WordCount(cw_out[k]) <= cw_max

\* The word w occurs in one of the chunks returned.
InSomeChunk(w) ==
    \E k \in 1..Len(cw_out) : \E p \in 1..WordCount(cw_out[k]) : Split(cw_out[k])[p] = w

\* Every word of the whitespace-split text occurs in a chunk.
NoWordLost == \A p \in 1..Len(Split(cw_text)) : InSomeChunk(Split(cw_text)[p])

\* C24: chunk_words loses no text: each word of the whitespace-split text
\* occurs in at least one returned chunk, in both variants, on the
\* numbered-section path and on the word-window path.
C24_NoWordLost ==
    cw_pc \in {"index_section", "index_words", "simple"} => NoWordLost

\* C24, the failing input: api/index.py returned section chunks for a text
\* that opens with a plain word before its first numbered section, and the
\* word is in no chunk.
C24_Witness ==
    /\ cw_pc = "index_section"
    /\ Split(cw_text)[1] = "tea"
    /\ ~InSomeChunk("tea")

\* C24 on the word-window path alone.
C24_NoWordLostByWindows == OnWindowPath => NoWordLost

=============================================================================
